---- MODULE Spec2Model ----
(***************************************************************************)
(* A model of the sigil interpreter: the value algebra, the namespace of   *)
(* vars, the stack of lexical scopes, the analyzer of fn* bodies and the   *)
(* evaluator of forms.  The evaluator is written as the source writes it,  *)
(* one operator per method of Interpreter, each taking the interpreter     *)
(* state and returning a result together with the state it leaves behind.  *)
(***************************************************************************)
EXTENDS Integers, Sequences, FiniteSets, TLC

VARIABLES interp, pre, last, hist, crashed

vars == <<interp, pre, last, hist, crashed>>

\* ------------------------------------------------------------------ bounds

\* Number of top-level forms one run of the interpreter is given.
MaxForms == 3

\* ------------------------------------------------------------------ values

EmptyMap == [k \in {} |-> <<>>]

V(t, n, s, xs) ==
    [t |-> t, n |-> n, s |-> s, xs |-> xs,
     level |-> 0, variadic |-> FALSE, captures |-> EmptyMap]

Nil == V("nil", 0, "", <<>>)
Bool(b) == V("bool", IF b THEN 1 ELSE 0, "", <<>>)
Number(n) == V("num", n, "", <<>>)
String(s) == V("str", 0, s, <<>>)
Keyword(s) == V("kw", 0, s, <<>>)
\* Symbol(id, None); a namespaced symbol carries its namespace in xs
Symbol(s) == V("sym", 0, s, <<>>)
SymbolNs(s, ns) == V("sym", 0, s, <<String(ns)>>)
List(xs) == V("list", 0, "", xs)
Vector(xs) == V("vec", 0, "", xs)
\* Map: xs alternates keys and values
Map(xs) == V("map", 0, "", xs)
Primitive(name) == V("prim", 0, name, <<>>)
\* Var and Atom are references to cells of the interpreter's heap
Var(addr, identifier) == V("var", addr, identifier, <<>>)
Atom(addr) == V("atom", addr, "", <<>>)
Recur(xs) == V("recur", 0, "", xs)
Exception(msg, data, thrown) == V("exc", IF thrown THEN 1 ELSE 0, msg, <<data>>)

Fn(body, arity, level, variadic) ==
    [t |-> "fn", n |-> arity, s |-> "", xs |-> body,
     level |-> level, variadic |-> variadic, captures |-> EmptyMap]
\* captures: name -> <<>> (None) or <<value>> (Some)
FnWithCaptures(f, captures) == [f EXCEPT !.t = "fnc", !.captures = captures]
FnImplOf(v) == [v EXCEPT !.t = "fn", !.captures = EmptyMap]
Macro(f) == [f EXCEPT !.t = "macro"]

exception_is_thrown(e) == e.t = "exc" /\ e.n = 1
exception_from_thrown(e) == [e EXCEPT !.n = 0]
exception_into_thrown(e) == [e EXCEPT !.n = 1]

\* ------------------------------------------------------------------ results

Ok(v, st) == [k |-> "ok", v |-> v, e |-> "", st |-> st]
Err(e, st) == [k |-> "err", v |-> Nil, e |-> e, st |-> st]
\* unreachable!(), expect() on None, a RefCell borrowed twice
Panic(st) == [k |-> "panic", v |-> Nil, e |-> "panic", st |-> st]

\* `let r = ...;`: the value is computed once and named in what follows
With(r, Then(_)) == Then(r)

\* ------------------------------------------------------------------ scopes

SPECIAL_FORMS ==
    {"def!", "var", "let*", "loop*", "recur", "if", "do", "fn*", "quote",
     "quasiquote", "unquote", "splice-unquote", "defmacro!", "macroexpand",
     "try*", "catch*"}

DEFAULT_NAMESPACE == "core"

ScopeInsert(scope, key, value) ==
    [k \in (DOMAIN scope) \cup {key} |-> IF k = key THEN value ELSE scope[k]]

param_keys ==
    << <<":system-fn-%0/0", ":system-fn-%0/1", ":system-fn-%0/2",
         ":system-fn-%0/3", ":system-fn-%0/4">>,
       <<":system-fn-%1/0", ":system-fn-%1/1", ":system-fn-%1/2",
         ":system-fn-%1/3", ":system-fn-%1/4">>,
       <<":system-fn-%2/0", ":system-fn-%2/1", ":system-fn-%2/2",
         ":system-fn-%2/3", ":system-fn-%2/4">> >>

lambda_parameter_key(index, level) == param_keys[index + 1][level + 1]

\* <<level>> for a reserved parameter token, <<>> for any other key; the
\* level is read from the last character of the key
get_lambda_parameter_level(key) ==
    IF \E i \in DOMAIN param_keys : \E l \in DOMAIN param_keys[i] : param_keys[i][l] = key
    THEN LET l == CHOOSE l \in DOMAIN param_keys[1] :
                      \E i \in DOMAIN param_keys : param_keys[i][l] = key
         IN <<(l - 1) % 10>>
    ELSE <<>>

\* scopes are searched from the most specific (last) to the least specific
RECURSIVE resolve_from(_, _, _)
resolve_from(scopes, i, identifier) ==
    IF i = 0 THEN <<>>
    ELSE IF identifier \in DOMAIN scopes[i] THEN <<scopes[i][identifier]>>
    ELSE resolve_from(scopes, i - 1, identifier)

resolve_symbol_in_scopes(scopes, identifier) ==
    resolve_from(scopes, Len(scopes), identifier)

enter_scope(st) == [st EXCEPT !.scopes = Append(st.scopes, EmptyMap)]

insert_value_in_current_scope(st, identifier, value) ==
    [st EXCEPT !.scopes[Len(st.scopes)] =
        ScopeInsert(st.scopes[Len(st.scopes)], identifier, value)]

leave_scope(st) == [st EXCEPT !.scopes = SubSeq(st.scopes, 1, Len(st.scopes) - 1)]

\* ------------------------------------------------------------------ vars

\* a var cell holds <<>> when unbound and <<value>> when bound
var_impl_into_inner(st, v) == st.vars[v.n]
var_update(st, v, value) == [st EXCEPT !.vars[v.n] = <<value>>]
\* var_with_value(value, namespace, identifier): a fresh bound cell
var_with_value(st, value, identifier) ==
    [var |-> Var(Len(st.vars) + 1, identifier),
     st |-> [st EXCEPT !.vars = Append(st.vars, <<value>>)]]

NsGet(ns, identifier) ==
    IF identifier \in DOMAIN ns THEN <<Var(ns[identifier], identifier)>> ELSE <<>>
NsRemove(ns, identifier) == [k \in (DOMAIN ns) \ {identifier} |-> ns[k]]

\* intern(id, value): create the var or update the one that exists
NsIntern(st, identifier, value) ==
    IF identifier \in DOMAIN st.ns
    THEN [st EXCEPT !.vars[st.ns[identifier]] = <<value>>]
    ELSE [st EXCEPT !.vars = Append(st.vars, <<value>>),
                    !.ns = ScopeInsert(st.ns, identifier, Len(st.vars) + 1)]

\* intern-unbound(id): create a var marked unbound
NsInternUnbound(st, identifier) ==
    IF identifier \in DOMAIN st.ns
    THEN [st EXCEPT !.vars[st.ns[identifier]] = <<>>]
    ELSE [st EXCEPT !.vars = Append(st.vars, <<>>),
                    !.ns = ScopeInsert(st.ns, identifier, Len(st.vars) + 1)]

intern_var(st, identifier, value) ==
    LET st1 == NsIntern(st, identifier, value)
    IN Ok(Var(st1.ns[identifier], identifier), st1)

intern_unbound_var(st, identifier) ==
    LET st1 == NsInternUnbound(st, identifier)
    IN Ok(Var(st1.ns[identifier], identifier), st1)

unintern_var(st, identifier) == [st EXCEPT !.ns = NsRemove(st.ns, identifier)]

resolve_var_in_namespace(st, identifier, ns_desc) ==
    IF ns_desc # DEFAULT_NAMESPACE THEN Err("MissingNamespace", st)
    ELSE IF NsGet(st.ns, identifier) = <<>> THEN Err("MissingVar", st)
    ELSE Ok(NsGet(st.ns, identifier)[1], st)

resolve_var_in_current_namespace(st, identifier) ==
    resolve_var_in_namespace(st, identifier, DEFAULT_NAMESPACE)

\* symbol -> namespace -> var
resolve_symbol_to_var(st, identifier, ns_opt) ==
    IF ns_opt # <<>> THEN resolve_var_in_namespace(st, identifier, ns_opt[1].s)
    ELSE IF resolve_symbol_in_scopes(st.scopes, identifier) # <<>>
         THEN Ok(resolve_symbol_in_scopes(st.scopes, identifier)[1], st)
    ELSE resolve_var_in_current_namespace(st, identifier)

\* symbol -> namespace -> var -> value
resolve_symbol(st, identifier, ns_opt) ==
    With(resolve_symbol_to_var(st, identifier, ns_opt), LAMBDA r :
        IF r.k # "ok" THEN r
        ELSE IF r.v.t = "var"
             THEN IF var_impl_into_inner(st, r.v) # <<>>
                  THEN Ok(var_impl_into_inner(st, r.v)[1], st)
                  ELSE r
             ELSE r)

\* ------------------------------------------------------------------ captures

\* <<captures'>> with every None filled from the live scopes, or <<>> when
\* some captured name is in no scope (UnableToResolveSymbolToValue)
update_captures(captures, scopes) ==
    IF \E c \in DOMAIN captures :
           captures[c] = <<>> /\ resolve_symbol_in_scopes(scopes, c) = <<>>
    THEN <<>>
    ELSE << [c \in DOMAIN captures |->
                IF captures[c] = <<>> THEN resolve_symbol_in_scopes(scopes, c)
                ELSE captures[c]] >>

\* pushes one frame holding the captured bindings; the frame is popped again
\* when a captured value is missing
extend_from_captures(st, captures) ==
    IF \E c \in DOMAIN captures : captures[c] = <<>>
    THEN Err("MissingCapturedValue", leave_scope(enter_scope(st)))
    ELSE Ok(Nil, [st EXCEPT !.scopes =
                     Append(st.scopes, [c \in DOMAIN captures |-> captures[c][1]])])

\* ------------------------------------------------------------------ let* parsing

IsPlainSymbol(v) == v.t = "sym" /\ v.xs = <<>>

\* <<>> on a syntax error, else <<bindings>>, bindings a sequence of <<name, form>>
parse_let_bindings(bindings_form) ==
    IF bindings_form.t # "vec" THEN <<>>
    ELSE IF Len(bindings_form.xs) % 2 # 0 THEN <<>>
    ELSE IF \E i \in 1..(Len(bindings_form.xs) \div 2) :
                ~IsPlainSymbol(bindings_form.xs[2 * i - 1])
         THEN <<>>
    ELSE << [i \in 1..(Len(bindings_form.xs) \div 2) |->
                <<bindings_form.xs[2 * i - 1].s, bindings_form.xs[2 * i]>>] >>

RECURSIVE resolve_forward_declarations_in_let_form(_, _)
RECURSIVE forward_declarations_in_forms(_, _, _)
forward_declarations_in_forms(names, forms, i) ==
    IF i > Len(forms) THEN <<>>
    ELSE resolve_forward_declarations_in_let_form(names, forms[i])
         \o forward_declarations_in_forms(names, forms, i + 1)

resolve_forward_declarations_in_let_form(names, value) ==
    IF value.t = "sym" THEN (IF value.xs = <<>> /\ value.s \in names THEN <<value.s>> ELSE <<>>)
    ELSE IF value.t \in {"list", "vec", "map", "fn", "fnc"}
         THEN forward_declarations_in_forms(names, value.xs, 1)
    ELSE <<>>

resolve_forward_declarations(bindings) ==
    forward_declarations_in_forms(
        {bindings[i][1] : i \in DOMAIN bindings},
        [i \in DOMAIN bindings |-> bindings[i][2]], 1)

\* ------------------------------------------------------------------ quasiquote

Reverse(seq) == [i \in 1..Len(seq) |-> seq[Len(seq) + 1 - i]]

\* the expansion of a quasiquoted form: <<>> on a QuasiquoteError, else <<form>>
RECURSIVE expand_quasiquote(_)
RECURSIVE eval_quasiquote_list_inner(_, _, _)
\* elems come in the order the iterator yields them (last element first)
eval_quasiquote_list_inner(elems, i, result) ==
    IF i > Len(elems) THEN <<result>>
    ELSE LET form == elems[i]
         IN IF form.t = "list" /\ form.xs # <<>>
               /\ IsPlainSymbol(form.xs[1]) /\ form.xs[1].s = "splice-unquote"
            THEN eval_quasiquote_list_inner(
                     elems, i + 1,
                     IF Len(form.xs) >= 2
                     THEN List(<<SymbolNs("concat", "core"), form.xs[2], result>>)
                     ELSE result)
            ELSE IF form.t = "list" /\ form.xs = <<>>
            THEN eval_quasiquote_list_inner(
                     elems, i + 1,
                     List(<<SymbolNs("cons", "core"), List(<<>>), result>>))
            ELSE With(expand_quasiquote(form), LAMBDA q :
                     IF q = <<>> THEN <<>>
                     ELSE eval_quasiquote_list_inner(
                              elems, i + 1,
                              List(<<SymbolNs("cons", "core"), q[1], result>>)))

eval_quasiquote_list(elems) ==
    IF elems = <<>> THEN <<List(<<>>)>>
    ELSE IF IsPlainSymbol(elems[1]) /\ elems[1].s = "unquote"
         THEN IF Len(elems) >= 2 THEN <<elems[2]>> ELSE <<>>
    ELSE eval_quasiquote_list_inner(Reverse(elems), 1, List(<<>>))

eval_quasiquote_vector(elems) ==
    With(eval_quasiquote_list_inner(Reverse(elems), 1, List(<<>>)), LAMBDA inner :
        IF inner = <<>> THEN <<>>
        ELSE <<List(<<SymbolNs("vec", "core"), inner[1]>>)>>)

expand_quasiquote(value) ==
    CASE value.t = "list" -> eval_quasiquote_list(value.xs)
      [] value.t = "vec" -> eval_quasiquote_vector(value.xs)
      [] value.t \in {"map", "sym"} -> <<List(<<Symbol("quote"), value>>)>>
      [] OTHER -> <<value>>

\* ------------------------------------------------------------------ evaluator

RECURSIVE evaluate(_, _)
RECURSIVE evaluate_each(_, _, _, _)
RECURSIVE eval_list(_, _)
RECURSIVE get_macro_expansion(_, _, _)
RECURSIVE apply_macro(_, _, _)
RECURSIVE expand_macro_if_present(_, _)
RECURSIVE bind_operands(_, _, _, _, _)
RECURSIVE variadic_operands(_, _, _, _, _)
RECURSIVE apply_fn_inner(_, _, _, _)
RECURSIVE apply_fn(_, _, _)
RECURSIVE apply_primitive(_, _, _)
RECURSIVE native_fn(_, _, _)
RECURSIVE eval_def(_, _)
RECURSIVE let_bind(_, _, _)
RECURSIVE eval_let(_, _)
RECURSIVE loop_bind(_, _, _, _)
RECURSIVE loop_run(_, _, _)
RECURSIVE eval_loop(_, _)
RECURSIVE eval_recur(_, _)
RECURSIVE eval_if(_, _)
RECURSIVE do_from(_, _, _, _)
RECURSIVE do_from_past_thrown(_, _, _, _)
RECURSIVE eval_do_inner(_, _)
RECURSIVE eval_do(_, _)
RECURSIVE eval_fn(_, _)
RECURSIVE eval_try(_, _)
RECURSIVE evaluate_in_global_scope(_, _)
RECURSIVE swap_atom(_, _)
RECURSIVE map_apply(_, _, _, _, _)
RECURSIVE map(_, _)
RECURSIVE analyze_symbols_in_fn(_, _, _, _, _)
RECURSIVE analyze_form_in_fn(_, _, _, _, _)
RECURSIVE analyze_list_in_fn(_, _, _, _, _)
RECURSIVE analyze_each(_, _, _, _, _, _, _)

\* `for form in forms { self.evaluate(form)? }`: the values, in order, as a List
evaluate_each(st, forms, i, acc) ==
    IF i > Len(forms) THEN Ok(List(acc), st)
    ELSE With(evaluate(st, forms[i]), LAMBDA r :
             IF r.k # "ok" THEN r
             ELSE evaluate_each(r.st, forms, i + 1, Append(acc, r.v)))

evaluate(st, form) ==
    CASE form.t \in {"nil", "bool", "num", "str", "kw"} -> Ok(form, st)
      [] form.t = "sym" -> resolve_symbol(st, form.s, form.xs)
      [] form.t = "list" -> eval_list(st, form.xs)
      [] form.t = "vec" ->
            With(evaluate_each(st, form.xs, 1, <<>>), LAMBDA r :
                IF r.k # "ok" THEN r ELSE Ok(Vector(r.v.xs), r.st))
      [] form.t = "map" ->
            With(evaluate_each(st, form.xs, 1, <<>>), LAMBDA r :
                IF r.k # "ok" THEN r ELSE Ok(Map(r.v.xs), r.st))
      [] form.t = "var" ->
            IF var_impl_into_inner(st, form) # <<>>
            THEN Ok(var_impl_into_inner(st, form)[1], st)
            ELSE Ok(form, st)
      [] form.t = "fn" -> Ok(form, st)
      [] form.t = "fnc" ->
            LET c == update_captures(form.captures, st.scopes)
            IN IF c = <<>> THEN Err("UnableToResolveSymbolToValue", st)
               ELSE Ok(FnWithCaptures(FnImplOf(form), c[1]), st)
      [] form.t \in {"prim", "atom"} -> Ok(form, st)
      [] form.t \in {"recur", "macro", "exc"} -> Panic(st)

get_macro_expansion(st, form, forms) ==
    IF form.t = "sym"
    THEN With(resolve_symbol(st, form.s, form.xs), LAMBDA r :
             IF r.k = "ok" /\ r.v.t = "macro"
             THEN <<apply_macro(st, r.v, forms)>> ELSE <<>>)
    ELSE IF form.t = "var"
    THEN LET inner == var_impl_into_inner(st, form)
         IN IF inner # <<>> /\ inner[1].t = "macro"
            THEN <<apply_macro(st, inner[1], forms)>> ELSE <<>>
    ELSE <<>>

\* apply_macro evaluating the operands before the macro body runs
apply_macro_evaluating_operands(st, f, forms) ==
    With(apply_fn_inner(st, f, Tail(forms), TRUE), LAMBDA r :
        IF r.k = "panic" THEN r
        ELSE IF r.k = "err" THEN Err("Failure", r.st)
        ELSE IF r.v.t = "list" THEN expand_macro_if_present(r.st, r.v.xs)
        ELSE r)

\* apply_macro returning the first expansion as it is
apply_macro_expanding_once(st, f, forms) ==
    With(apply_fn_inner(st, f, Tail(forms), FALSE), LAMBDA r :
        IF r.k = "panic" THEN r
        ELSE IF r.k = "err" THEN Err("Failure", r.st)
        ELSE r)

apply_macro(st, f, forms) ==
    With(apply_fn_inner(st, f, Tail(forms), FALSE), LAMBDA r :
        IF r.k = "panic" THEN r
        ELSE IF r.k = "err" THEN Err("Failure", r.st)
        ELSE IF r.v.t = "list" THEN expand_macro_if_present(r.st, r.v.xs)
        ELSE r)

expand_macro_if_present(st, forms) ==
    IF forms = <<>> THEN Ok(List(<<>>), st)
    ELSE With(get_macro_expansion(st, forms[1], forms), LAMBDA expansion :
             IF expansion # <<>> THEN expansion[1] ELSE Ok(List(forms), st))

\* the fixed parameters: each operand is evaluated and bound in the frame
\* of the callee before the next operand is evaluated
bind_operands(st, f, args, index, should_evaluate) ==
    IF index >= f.n \/ index >= Len(args) THEN Ok(Nil, st)
    ELSE With(IF should_evaluate THEN evaluate(st, args[index + 1])
              ELSE Ok(args[index + 1], st), LAMBDA r :
             IF r.k = "panic" THEN r
             ELSE IF r.k = "err" THEN Err("Failure", leave_scope(r.st))
             ELSE bind_operands(
                      insert_value_in_current_scope(
                          r.st, lambda_parameter_key(index, f.level), r.v),
                      f, args, index + 1, should_evaluate))

\* the operands after the fixed ones, collected for the variadic parameter
variadic_operands(st, args, i, acc, should_evaluate) ==
    IF i > Len(args) THEN Ok(List(acc), st)
    ELSE With(IF should_evaluate THEN evaluate(st, args[i]) ELSE Ok(args[i], st),
              LAMBDA r :
             IF r.k = "panic" THEN r
             ELSE IF r.k = "err" THEN Err("Failure", leave_scope(r.st))
             ELSE variadic_operands(r.st, args, i + 1, Append(acc, r.v),
                                    should_evaluate))

apply_fn_inner(st, f, args, should_evaluate) ==
    IF ~(IF f.variadic THEN Len(args) >= f.n ELSE Len(args) = f.n)
    THEN Err("Failure", st)
    ELSE
    With(bind_operands(enter_scope(st), f, args, 0, should_evaluate), LAMBDA r1 :
    IF r1.k # "ok" THEN r1 ELSE
    With(IF f.variadic
         THEN variadic_operands(r1.st, args, f.n + 1, <<>>, should_evaluate)
         ELSE r1, LAMBDA r2 :
    IF r2.k # "ok" THEN r2 ELSE
    With(eval_do_inner(
             IF f.variadic
             THEN insert_value_in_current_scope(
                      r2.st, lambda_parameter_key(f.n, f.level), r2.v)
             ELSE r2.st,
             f.xs), LAMBDA result :
    IF result.k = "ok" /\ result.v.t = "fnc"
    THEN LET c == update_captures(result.v.captures, result.st.scopes)
         IN IF c = <<>>
            THEN Err("UnableToResolveSymbolToValue", result.st)
            ELSE Ok(FnWithCaptures(FnImplOf(result.v), c[1]), leave_scope(result.st))
    ELSE IF result.k = "panic" THEN result
    ELSE [result EXCEPT !.st = leave_scope(result.st)])))

apply_fn(st, f, args) == apply_fn_inner(st, f, Tail(args), TRUE)

apply_primitive(st, name, args) ==
    With(evaluate_each(st, Tail(args), 1, <<>>), LAMBDA r :
        IF r.k # "ok" THEN r ELSE native_fn(r.st, name, r.v.xs))

\* eval_def leaving the var it interned for a failing def! in the namespace
eval_def_keeps_sentinel(st, forms) ==
    IF Len(forms) < 2 \/ ~IsPlainSymbol(forms[2]) THEN Err("Failure", st)
    ELSE IF Len(forms) < 3 THEN intern_unbound_var(st, forms[2].s)
    ELSE
    LET id == forms[2].s
        found == resolve_var_in_current_namespace(st, id)
        r0 == IF found.k = "ok" THEN found ELSE intern_unbound_var(st, id)
    IN With(evaluate(r0.st, forms[3]), LAMBDA r :
           IF r.k = "panic" THEN r
           ELSE IF r.k = "ok" THEN Ok(r0.v, var_update(r.st, r0.v, r.v))
           ELSE Err("Failure", r.st))

\* eval_def binding the name to a new var instead of updating the one it has
eval_def_swapping_cell(st, forms) ==
    IF Len(forms) < 2 \/ ~IsPlainSymbol(forms[2]) THEN Err("Failure", st)
    ELSE IF Len(forms) < 3 THEN intern_unbound_var(st, forms[2].s)
    ELSE
    LET id == forms[2].s
        found == resolve_var_in_current_namespace(st, id)
        var_already_exists == found.k = "ok"
        r0 == IF var_already_exists THEN found ELSE intern_unbound_var(st, id)
    IN With(evaluate(r0.st, forms[3]), LAMBDA r :
           IF r.k = "panic" THEN r
           ELSE IF r.k = "ok" THEN intern_var(unintern_var(r.st, id), id, r.v)
           ELSE IF ~var_already_exists THEN Err("Failure", unintern_var(r.st, id))
           ELSE Err("Failure", r.st))

eval_def(st, forms) ==
    IF Len(forms) < 2 \/ ~IsPlainSymbol(forms[2]) THEN Err("Failure", st)
    ELSE IF Len(forms) < 3 THEN intern_unbound_var(st, forms[2].s)
    ELSE
    LET id == forms[2].s
        found == resolve_var_in_current_namespace(st, id)
        var_already_exists == found.k = "ok"
        r0 == IF var_already_exists THEN found ELSE intern_unbound_var(st, id)
        var == r0.v
    IN With(evaluate(r0.st, forms[3]), LAMBDA r :
           IF r.k = "panic" THEN r
           ELSE IF r.k = "ok" THEN Ok(var, var_update(r.st, var, r.v))
           ELSE IF ~var_already_exists THEN Err("Failure", unintern_var(r.st, id))
           ELSE Err("Failure", r.st))

eval_var(st, forms) ==
    IF Len(forms) >= 2 /\ forms[2].t = "sym"
    THEN IF forms[2].xs # <<>>
         THEN resolve_var_in_namespace(st, forms[2].s, forms[2].xs[1].s)
         ELSE resolve_var_in_current_namespace(st, forms[2].s)
    ELSE Err("Failure", st)

\* declare_forward that declares no name ahead of its binding
declare_forward_nothing(st, identifiers, i) == st

RECURSIVE declare_forward(_, _, _)
declare_forward(st, identifiers, i) ==
    IF i > Len(identifiers) THEN st
    ELSE LET a == var_with_value(st, Nil, identifiers[i])
         IN declare_forward(
                insert_value_in_current_scope(a.st, identifiers[i], a.var),
                identifiers, i + 1)

let_bind(st, bindings, i) ==
    IF i > Len(bindings) THEN Ok(Nil, st)
    ELSE With(evaluate(st, bindings[i][2]), LAMBDA r :
             LET identifier == bindings[i][1]
                 found == resolve_symbol_in_scopes(r.st.scopes, identifier)
             IN IF r.k = "panic" THEN r
                ELSE IF r.k = "err" THEN [r EXCEPT !.st = leave_scope(r.st)]
                ELSE IF found # <<>> /\ found[1].t = "var"
                     THEN let_bind(var_update(r.st, found[1], r.v), bindings, i + 1)
                ELSE let_bind(insert_value_in_current_scope(r.st, identifier, r.v),
                              bindings, i + 1))

\* eval_let returning the body's result without popping the frame of the let*
eval_let_keeps_frame(st, forms) ==
    IF Len(forms) < 2 THEN Err("Syntax", st)
    ELSE LET parsed == parse_let_bindings(forms[2])
         IN IF parsed = <<>> THEN Err("Syntax", st)
            ELSE
            LET bindings == parsed[1]
                body == SubSeq(forms, 3, Len(forms))
                st1 == declare_forward(enter_scope(st),
                                       resolve_forward_declarations(bindings), 1)
            IN With(let_bind(st1, bindings, 1), LAMBDA r :
                   IF r.k # "ok" THEN r ELSE eval_do_inner(r.st, body))

eval_let(st, forms) ==
    IF Len(forms) < 2 THEN Err("Syntax", st)
    ELSE LET parsed == parse_let_bindings(forms[2])
         IN IF parsed = <<>> THEN Err("Syntax", st)
            ELSE
            LET bindings == parsed[1]
                body == SubSeq(forms, 3, Len(forms))
                st1 == declare_forward(enter_scope(st),
                                       resolve_forward_declarations(bindings), 1)
            IN With(let_bind(st1, bindings, 1), LAMBDA r :
                   IF r.k # "ok" THEN r
                   ELSE With(eval_do_inner(r.st, body), LAMBDA result :
                            IF result.k = "panic" THEN result
                            ELSE [result EXCEPT !.st = leave_scope(result.st)]))

loop_bind(st, elems, i, keys) ==
    IF 2 * i > Len(elems) THEN Ok(List(keys), st)
    ELSE IF ~IsPlainSymbol(elems[2 * i - 1]) THEN Err("Failure", leave_scope(st))
    ELSE With(evaluate(st, elems[2 * i]), LAMBDA r :
             IF r.k # "ok" THEN r
             ELSE loop_bind(
                      insert_value_in_current_scope(r.st, elems[2 * i - 1].s, r.v),
                      elems, i + 1, Append(keys, String(elems[2 * i - 1].s))))

RECURSIVE rebind(_, _, _, _)
rebind(st, keys, values, i) ==
    IF i > Len(keys) THEN st
    ELSE rebind(insert_value_in_current_scope(st, keys[i].s, values[i]),
                keys, values, i + 1)

\* loop_run returning what the body yields after the first recur, whether
\* or not that is a recur again
loop_run_twice(st, body, keys) ==
    With(eval_do_inner(st, body), LAMBDA result :
        IF result.k = "ok" /\ result.v.t = "recur"
        THEN IF Len(result.v.xs) # Len(keys)
             THEN Err("Failure", leave_scope(result.st))
             ELSE With(eval_do_inner(rebind(result.st, keys, result.v.xs, 1), body),
                       LAMBDA again :
                      IF again.k = "panic" THEN again
                      ELSE [again EXCEPT !.st = leave_scope(again.st)])
        ELSE IF result.k = "panic" THEN result
        ELSE [result EXCEPT !.st = leave_scope(result.st)])

loop_run(st, body, keys) ==
    With(eval_do_inner(st, body), LAMBDA result :
        IF result.k = "ok" /\ result.v.t = "recur"
        THEN IF Len(result.v.xs) # Len(keys)
             THEN Err("Failure", leave_scope(result.st))
             ELSE loop_run(rebind(result.st, keys, result.v.xs, 1), body, keys)
        ELSE IF result.k = "panic" THEN result
        ELSE [result EXCEPT !.st = leave_scope(result.st)])

eval_loop(st, forms) ==
    IF Len(forms) >= 2 /\ forms[2].t = "vec" /\ Len(forms[2].xs) % 2 = 0
    THEN IF Len(forms) = 2 THEN Ok(Nil, st)
         ELSE With(loop_bind(enter_scope(st), forms[2].xs, 1, <<>>), LAMBDA r :
                  IF r.k # "ok" THEN r
                  ELSE loop_run(r.st, SubSeq(forms, 3, Len(forms)), r.v.xs))
    ELSE Err("Failure", st)

eval_recur(st, forms) ==
    With(evaluate_each(st, Tail(forms), 1, <<>>), LAMBDA r :
        IF r.k # "ok" THEN r ELSE Ok(Recur(r.v.xs), r.st))

eval_if_zero_is_falsey(st, forms) ==
    IF Len(forms) < 3 THEN Err("Failure", st)
    ELSE With(evaluate(st, forms[2]), LAMBDA p :
             IF p.k # "ok" THEN p
             ELSE IF (p.v.t \in {"bool", "num"} /\ p.v.n = 0) \/ p.v.t = "nil"
                  THEN IF Len(forms) >= 4 THEN evaluate(p.st, forms[4])
                       ELSE Ok(Nil, p.st)
             ELSE evaluate(p.st, forms[3]))

eval_if(st, forms) ==
    IF Len(forms) < 3 THEN Err("Failure", st)
    ELSE With(evaluate(st, forms[2]), LAMBDA p :
             IF p.k # "ok" THEN p
             ELSE IF (p.v.t = "bool" /\ p.v.n = 0) \/ p.v.t = "nil"
                  THEN IF Len(forms) >= 4 THEN evaluate(p.st, forms[4])
                       ELSE Ok(Nil, p.st)
             ELSE evaluate(p.st, forms[3]))

\* do_from going on to the next form after a thrown exception
do_from_past_thrown(st, forms, i, acc) ==
    IF i > Len(forms) THEN Ok(acc, st)
    ELSE With(evaluate(st, forms[i]), LAMBDA r :
             IF r.k # "ok" THEN r
             ELSE do_from_past_thrown(r.st, forms, i + 1, r.v))

do_from(st, forms, i, acc) ==
    IF i > Len(forms) THEN Ok(acc, st)
    ELSE With(evaluate(st, forms[i]), LAMBDA r :
             IF r.k # "ok" THEN r
             ELSE IF exception_is_thrown(r.v) THEN r
             ELSE do_from(r.st, forms, i + 1, r.v))

eval_do_inner(st, forms) == do_from(st, forms, 1, Nil)

eval_do(st, forms) == eval_do_inner(st, Tail(forms))

eval_quote(st, forms) ==
    IF Len(forms) = 2 THEN Ok(forms[2], st) ELSE Err("Failure", st)

\* defmacro! is def! followed by the promotion of the stored Fn to a Macro;
\* any other stored value has the var removed from the namespace
eval_quasiquote(st, forms) ==
    IF Len(forms) < 2 THEN Err("Failure", st)
    ELSE With(expand_quasiquote(forms[2]), LAMBDA expansion :
             IF expansion = <<>> THEN Err("QuasiquoteError", st)
             ELSE evaluate(st, expansion[1]))

eval_defmacro(st, forms) ==
    With(eval_def(st, forms), LAMBDA r :
        IF r.k = "panic" THEN r
        ELSE IF r.k = "err" THEN Err("Failure", r.st)
        ELSE IF r.v.t # "var" THEN Panic(r.st)
        ELSE LET inner == var_impl_into_inner(r.st, r.v)
             IN IF inner # <<>> /\ inner[1].t = "fn"
                THEN Ok(r.v, var_update(r.st, r.v, Macro(inner[1])))
                ELSE Err("Failure", unintern_var(r.st, r.v.s)))

eval_macroexpand(st, forms) ==
    IF Len(forms) # 2 THEN Err("WrongArity", st)
    ELSE With(evaluate(st, forms[2]), LAMBDA r :
             IF r.k # "ok" THEN r
             ELSE IF r.v.t = "list" THEN expand_macro_if_present(r.st, r.v.xs)
             ELSE r)


\* ------------------------------------------------------------------ analyzer

\* an analysis result also carries the analyzer's own scopes and capture sets
AOk(v, st, sc, cp) == [k |-> "ok", v |-> v, e |-> "", st |-> st, sc |-> sc, cp |-> cp]
AFrom(r, sc, cp) == [k |-> r.k, v |-> r.v, e |-> r.e, st |-> r.st, sc |-> sc, cp |-> cp]
AErr(e, st, sc, cp) == AFrom(Err(e, st), sc, cp)

\* the parameter index of a fn*: <<>> on a syntax error, else
\* <<[parameters |-> name -> reserved token, variadic |-> ...]>>
RECURSIVE parameter_index(_, _, _, _)
parameter_index(params, index, level, parameters) ==
    IF index >= Len(params) THEN <<[parameters |-> parameters, variadic |-> FALSE]>>
    ELSE LET param == params[index + 1]
         IN IF Len(params) >= 2 /\ index = Len(params) - 2
               /\ IsPlainSymbol(param) /\ param.s = "&"
            THEN IF IsPlainSymbol(params[index + 2])
                 THEN <<[parameters |->
                             ScopeInsert(parameters, params[index + 2].s,
                                         Symbol(lambda_parameter_key(index, level))),
                         variadic |-> TRUE]>>
                 ELSE <<>>
            ELSE IF IsPlainSymbol(param)
                 THEN parameter_index(params, index + 1, level,
                          ScopeInsert(parameters, param.s,
                                      Symbol(lambda_parameter_key(index, level))))
            ELSE <<>>

analyze_each(st, forms, i, acc, scopes, captures, level) ==
    IF i > Len(forms) THEN AOk(List(acc), st, scopes, captures)
    ELSE With(analyze_form_in_fn(st, forms[i], scopes, captures, level), LAMBDA r :
             IF r.k # "ok" THEN r
             ELSE analyze_each(r.st, forms, i + 1, Append(acc, r.v), r.sc, r.cp, level))

analyze_symbols_in_fn(st, body, params, lambda_scopes, captures) ==
    LET level == Len(lambda_scopes)
        index == parameter_index(params, 0, level, EmptyMap)
    IN IF index = <<>> THEN AErr("Failure", st, lambda_scopes, captures)
       ELSE
       LET parameters == index[1].parameters
           variadic == index[1].variadic
           arity == IF variadic THEN Cardinality(DOMAIN parameters) - 1
                    ELSE Cardinality(DOMAIN parameters)
       IN With(analyze_each(st, body, 1, <<>>, Append(lambda_scopes, parameters),
                            captures, level), LAMBDA r :
              IF r.k # "ok" THEN r
              ELSE AOk(Fn(r.v.xs, arity, level, variadic), r.st,
                       SubSeq(r.sc, 1, Len(r.sc) - 1), r.cp))

\* a fn* (or a catch*, as a lambda of one parameter) met inside a body
analyze_lambda_in_fn(st, rest, bindings, scopes, captures) ==
    With(analyze_symbols_in_fn(st, rest, bindings, scopes, Append(captures, {})),
         LAMBDA r :
    IF r.k # "ok" THEN r
    ELSE
    LET current_fn_level == Len(captures)
        captures_at_this_level == r.cp[Len(r.cp)]
        popped == SubSeq(r.cp, 1, Len(r.cp) - 1)
        hoisted == [l \in DOMAIN popped |->
                       popped[l] \cup
                       {c \in captures_at_this_level :
                           /\ get_lambda_parameter_level(c) # <<>>
                           /\ get_lambda_parameter_level(c)[1] < current_fn_level
                           /\ get_lambda_parameter_level(c)[1] = l - 1}]
    IN IF captures_at_this_level # {}
       THEN AOk(FnWithCaptures(r.v, [c \in captures_at_this_level |-> <<>>]),
                r.st, r.sc, hoisted)
       ELSE AOk(r.v, r.st, r.sc, popped))

\* the elements after the analyzed prefix, then the pop of a scope pushed here
analyze_rest_in_fn(st, elems, prefix, scopes, captures, level, scopes_len) ==
    With(analyze_each(st, elems, Len(prefix) + 1, prefix, scopes, captures, level),
         LAMBDA r :
        IF r.k # "ok" THEN r
        ELSE AOk(r.v, r.st,
                 IF scopes_len # Len(r.sc) THEN SubSeq(r.sc, 1, Len(r.sc) - 1) ELSE r.sc,
                 r.cp))

BindingNames(bindings) ==
    [s \in {bindings[2 * i - 1].s : i \in 1..(Len(bindings) \div 2)} |-> Symbol(s)]

BindingValues(bindings) == [i \in 1..(Len(bindings) \div 2) |-> bindings[2 * i]]

Interleave(bindings, values) ==
    [i \in 1..Len(bindings) |->
        IF i % 2 = 1 THEN bindings[i] ELSE values[i \div 2]]

analyze_list_in_fn(st, elems, scopes, captures, level) ==
    LET scopes_len == Len(scopes)
        head == IF elems = <<>> THEN Nil ELSE elems[1]
        second == IF Len(elems) >= 2 THEN elems[2] ELSE Nil
        headed(s) == IsPlainSymbol(head) /\ head.s = s /\ Len(elems) >= 2
    IN
    IF (headed("let*") \/ headed("loop*")) /\ second.t = "vec"
    THEN IF Len(second.xs) % 2 # 0
            \/ \E i \in 1..(Len(second.xs) \div 2) : ~IsPlainSymbol(second.xs[2 * i - 1])
         THEN AErr("Failure", st, scopes, captures)
         ELSE
         LET scope == BindingNames(second.xs)
         IN With(analyze_each(st, BindingValues(second.xs), 1, <<>>,
                              IF head.s = "let*" THEN Append(scopes, scope) ELSE scopes,
                              captures, level), LAMBDA r :
                IF r.k # "ok" THEN r
                ELSE analyze_rest_in_fn(
                         r.st, elems,
                         <<head, Vector(Interleave(second.xs, r.v.xs))>>,
                         IF head.s = "let*" THEN r.sc ELSE Append(r.sc, scope),
                         r.cp, level, scopes_len))
    ELSE IF (headed("let*") \/ headed("loop*") \/ (IsPlainSymbol(head) /\ head.s \in {"let*", "loop*"}))
    THEN analyze_rest_in_fn(st, elems, <<head>>, scopes, captures, level, scopes_len)
    ELSE IF headed("fn*") /\ second.t = "vec"
    THEN analyze_lambda_in_fn(st, SubSeq(elems, 3, Len(elems)), second.xs, scopes, captures)
    ELSE IF headed("catch*") /\ IsPlainSymbol(second)
    THEN analyze_lambda_in_fn(st, SubSeq(elems, 3, Len(elems)), <<second>>, scopes, captures)
    ELSE IF headed("quote") /\ IsPlainSymbol(second)
    THEN analyze_rest_in_fn(st, elems, <<>>,
                            Append(scopes, [s \in {second.s} |-> Symbol(s)]),
                            captures, level, scopes_len)
    ELSE analyze_rest_in_fn(st, elems, <<>>, scopes, captures, level, scopes_len)

analyze_form_in_fn(st, form, scopes, captures, level) ==
    CASE form.t = "sym" ->
            LET found == resolve_symbol_in_scopes(scopes, form.s)
                requested == IF found # <<>> /\ IsPlainSymbol(found[1])
                             THEN get_lambda_parameter_level(found[1].s) ELSE <<>>
            IN IF found # <<>>
               THEN IF requested # <<>> /\ requested[1] < level
                    THEN IF captures = <<>> THEN AFrom(Panic(st), scopes, captures)
                         ELSE AOk(found[1], st, scopes,
                                  [captures EXCEPT ![Len(captures)] = @ \cup {found[1].s}])
                    ELSE AOk(found[1], st, scopes, captures)
               ELSE AFrom(resolve_symbol_to_var(st, form.s, form.xs), scopes, captures)
      [] form.t = "list" ->
            IF form.xs = <<>> THEN AOk(List(<<>>), st, scopes, captures)
            ELSE With(get_macro_expansion(st, form.xs[1], form.xs), LAMBDA expansion :
                     IF expansion = <<>>
                     THEN analyze_list_in_fn(st, form.xs, scopes, captures, level)
                     ELSE IF expansion[1].k # "ok"
                          THEN AFrom(expansion[1], scopes, captures)
                     ELSE IF expansion[1].v.t = "list"
                          THEN analyze_list_in_fn(expansion[1].st, expansion[1].v.xs,
                                                  scopes, captures, level)
                     ELSE analyze_form_in_fn(expansion[1].st, expansion[1].v,
                                             scopes, captures, level))
      [] form.t \in {"vec", "map"} ->
            With(analyze_each(st, form.xs, 1, <<>>, scopes, captures, level), LAMBDA r :
                IF r.k # "ok" THEN r
                ELSE AOk([form EXCEPT !.xs = r.v.xs], r.st, r.sc, r.cp))
      [] form.t \in {"fn", "fnc", "prim", "recur", "macro", "exc"} ->
            AFrom(Panic(st), scopes, captures)
      [] OTHER -> AOk(form, st, scopes, captures)

\* the analysis result as an evaluation result
AResult(r) == [k |-> r.k, v |-> r.v, e |-> r.e, st |-> r.st]

eval_fn(st, forms) ==
    IF Len(forms) >= 2 /\ forms[2].t = "vec"
    THEN AResult(analyze_symbols_in_fn(st, SubSeq(forms, 3, Len(forms)),
                                       forms[2].xs, <<>>, <<>>))
    ELSE Err("Failure", st)

\* ------------------------------------------------------------------ try* / catch*

\* runs the body of the catch* handler with the exception bound
catch_exception_still_thrown(st, handler, e) ==
    IF handler.t = "fn"
    THEN With(eval_do_inner(
                  insert_value_in_current_scope(
                      enter_scope(st), lambda_parameter_key(0, handler.level),
                      e),
                  handler.xs), LAMBDA result :
             IF result.k = "panic" THEN result
             ELSE [result EXCEPT !.st = leave_scope(result.st)])
    ELSE LET c == update_captures(handler.captures, st.scopes)
         IN IF c = <<>> THEN Err("UnableToResolveSymbolToValue", st)
            ELSE
            LET x == extend_from_captures(st, c[1])
            IN IF x.k # "ok" THEN x
               ELSE
               With(eval_do_inner(
                        insert_value_in_current_scope(
                            enter_scope(x.st), lambda_parameter_key(0, handler.level),
                            e),
                        handler.xs), LAMBDA result :
                   IF result.k = "panic" THEN result
                   ELSE [result EXCEPT !.st = leave_scope(leave_scope(result.st))])

catch_exception(st, handler, e) ==
    IF handler.t = "fn"
    THEN With(eval_do_inner(
                  insert_value_in_current_scope(
                      enter_scope(st), lambda_parameter_key(0, handler.level),
                      exception_from_thrown(e)),
                  handler.xs), LAMBDA result :
             IF result.k = "panic" THEN result
             ELSE [result EXCEPT !.st = leave_scope(result.st)])
    ELSE LET c == update_captures(handler.captures, st.scopes)
         IN IF c = <<>> THEN Err("UnableToResolveSymbolToValue", st)
            ELSE
            LET x == extend_from_captures(st, c[1])
            IN IF x.k # "ok" THEN x
               ELSE
               With(eval_do_inner(
                        insert_value_in_current_scope(
                            enter_scope(x.st), lambda_parameter_key(0, handler.level),
                            exception_from_thrown(e)),
                        handler.xs), LAMBDA result :
                   IF result.k = "panic" THEN result
                   ELSE [result EXCEPT !.st = leave_scope(leave_scope(result.st))])

eval_try_catching_errors(st, forms) ==
    LET rest == Tail(forms)
        last_form == IF rest = <<>> THEN Nil ELSE rest[Len(rest)]
        is_catch == last_form.t = "list" /\ last_form.xs # <<>>
                    /\ IsPlainSymbol(last_form.xs[1]) /\ last_form.xs[1].s = "catch*"
    IN
    IF is_catch /\ Len(last_form.xs) >= 2 /\ ~IsPlainSymbol(last_form.xs[2])
    THEN Err("Failure", st)
    ELSE
    With(IF is_catch /\ Len(last_form.xs) >= 2
         THEN AResult(analyze_symbols_in_fn(
                  st, SubSeq(last_form.xs, 3, Len(last_form.xs)),
                  <<last_form.xs[2]>>, <<>>, <<>>))
         ELSE Ok(Nil, st), LAMBDA analyzed :
    IF analyzed.k # "ok" THEN analyzed
    ELSE
    LET catch_form == IF is_catch /\ Len(last_form.xs) >= 2 THEN <<analyzed.v>>
                      ELSE IF last_form.t \in {"fn", "fnc"} THEN <<last_form>>
                      ELSE <<>>
        forms_to_eval == IF catch_form = <<>> THEN rest
                         ELSE SubSeq(rest, 1, Len(rest) - 1)
    IN With(eval_do_inner(analyzed.st, forms_to_eval), LAMBDA r :
           IF r.k = "panic" THEN r
           ELSE IF r.k = "err"
                THEN IF catch_form # <<>>
                     THEN catch_exception(r.st, catch_form[1],
                                          Exception(r.e, Nil, TRUE))
                     ELSE r
           ELSE IF exception_is_thrown(r.v) /\ catch_form # <<>>
                THEN catch_exception(r.st, catch_form[1], r.v)
           ELSE r))

eval_try(st, forms) ==
    LET rest == Tail(forms)
        last_form == IF rest = <<>> THEN Nil ELSE rest[Len(rest)]
        is_catch == last_form.t = "list" /\ last_form.xs # <<>>
                    /\ IsPlainSymbol(last_form.xs[1]) /\ last_form.xs[1].s = "catch*"
    IN
    IF is_catch /\ Len(last_form.xs) >= 2 /\ ~IsPlainSymbol(last_form.xs[2])
    THEN Err("Failure", st)
    ELSE
    With(IF is_catch /\ Len(last_form.xs) >= 2
         THEN AResult(analyze_symbols_in_fn(
                  st, SubSeq(last_form.xs, 3, Len(last_form.xs)),
                  <<last_form.xs[2]>>, <<>>, <<>>))
         ELSE Ok(Nil, st), LAMBDA analyzed :
    IF analyzed.k # "ok" THEN analyzed
    ELSE
    LET catch_form == IF is_catch /\ Len(last_form.xs) >= 2 THEN <<analyzed.v>>
                      ELSE IF last_form.t \in {"fn", "fnc"} THEN <<last_form>>
                      ELSE <<>>
        forms_to_eval == IF catch_form = <<>> THEN rest
                         ELSE SubSeq(rest, 1, Len(rest) - 1)
    IN With(eval_do_inner(analyzed.st, forms_to_eval), LAMBDA r :
           IF r.k # "ok" THEN r
           ELSE IF exception_is_thrown(r.v) /\ catch_form # <<>>
                THEN catch_exception(r.st, catch_form[1], r.v)
           ELSE r))

\* ------------------------------------------------------------------ lists

eval_list(st, forms) ==
    IF forms = <<>> THEN Ok(List(<<>>), st)
    ELSE
    With(get_macro_expansion(st, forms[1], forms), LAMBDA expansion :
    LET operator_form == forms[1]
        special(s) == IsPlainSymbol(operator_form) /\ operator_form.s = s
    IN
    IF expansion # <<>>
    THEN IF expansion[1].k # "ok" THEN expansion[1]
         ELSE IF expansion[1].v.t = "list"
              THEN eval_list(expansion[1].st, expansion[1].v.xs)
         ELSE evaluate(expansion[1].st, expansion[1].v)
    ELSE
    CASE special("def!") -> eval_def(st, forms)
      [] special("var") -> eval_var(st, forms)
      [] special("let*") -> eval_let(st, forms)
      [] special("loop*") -> eval_loop(st, forms)
      [] special("recur") -> eval_recur(st, forms)
      [] special("if") -> eval_if(st, forms)
      [] special("do") -> eval_do(st, forms)
      [] special("fn*") -> eval_fn(st, forms)
      [] special("quote") -> eval_quote(st, forms)
      [] special("quasiquote") -> eval_quasiquote(st, forms)
      [] special("defmacro!") -> eval_defmacro(st, forms)
      [] special("macroexpand") -> eval_macroexpand(st, forms)
      [] special("try*") -> eval_try(st, forms)
      [] OTHER ->
            With(evaluate(st, operator_form), LAMBDA op :
                IF op.k # "ok" THEN op
                ELSE IF op.v.t = "fn" THEN apply_fn(op.st, op.v, forms)
                ELSE IF op.v.t = "fnc"
                     THEN LET x == extend_from_captures(op.st, op.v.captures)
                          IN IF x.k # "ok" THEN x
                             ELSE With(apply_fn(x.st, FnImplOf(op.v), forms),
                                       LAMBDA result :
                                      IF result.k = "panic" THEN result
                                      ELSE [result EXCEPT
                                                !.st = leave_scope(result.st)])
                ELSE IF op.v.t = "prim" THEN apply_primitive(op.st, op.v.s, forms)
                ELSE Err("CannotInvoke", op.st)))

\* evaluate_in_global_scope leaving the frames of the caller on the stack
evaluate_in_caller_scope(st, form) == evaluate(st, form)

evaluate_in_global_scope(st, form) ==
    With(evaluate([st EXCEPT !.scopes = SubSeq(st.scopes, 1, 1)], form),
         LAMBDA result :
        LET child_scopes == SubSeq(st.scopes, 2, Len(st.scopes))
        IN IF result.k = "panic" THEN result
           ELSE [result EXCEPT !.st.scopes = result.st.scopes \o child_scopes])


\* ------------------------------------------------------------------ prelude

\* Value::Number holds an i64.  The model keeps the checked operations of the
\* source on a signed word of IntBits bits, so that both ends of the range are
\* numbers the model checker can hold.
IntBits == 8
IntMax == 2 ^ (IntBits - 1) - 1
IntMin == 0 - 2 ^ (IntBits - 1)
InRange(n) == IntMin <= n /\ n <= IntMax

\* the two's complement value a result outside the range would wrap to
Wrapped(n) == ((n - IntMin) % (2 ^ IntBits)) + IntMin

\* checked_add that wraps instead of reporting the overflow
wrapping_add(a, b) == <<Wrapped(a + b)>>

\* i64::checked_add: <<sum>>, or <<>> on overflow
checked_add(a, b) == IF InRange(a + b) THEN <<a + b>> ELSE <<>>

\* i64::checked_sub, i64::checked_mul, i64::checked_neg
checked_sub(a, b) == IF InRange(a - b) THEN <<a - b>> ELSE <<>>
checked_mul(a, b) == IF InRange(a * b) THEN <<a * b>> ELSE <<>>
checked_neg(a) == IF InRange(0 - a) THEN <<0 - a>> ELSE <<>>

RECURSIVE plus_from(_, _, _, _)
plus_from(st, args, i, acc) ==
    IF i > Len(args) THEN Ok(Number(acc), st)
    ELSE IF args[i].t # "num" THEN Err("Primitive", st)
    ELSE IF checked_add(acc, args[i].n) = <<>> THEN Err("Primitive", st)
    ELSE plus_from(st, args, i + 1, checked_add(acc, args[i].n)[1])

plus(st, args) == plus_from(st, args, 1, 0)

RECURSIVE subtract_from(_, _, _, _)
subtract_from(st, args, i, acc) ==
    IF i > Len(args) THEN Ok(Number(acc), st)
    ELSE IF args[i].t # "num" THEN Err("Primitive", st)
    ELSE IF checked_sub(acc, args[i].n) = <<>> THEN Err("Primitive", st)
    ELSE subtract_from(st, args, i + 1, checked_sub(acc, args[i].n)[1])

subtract(st, args) ==
    IF Len(args) = 0 THEN Err("Primitive", st)
    ELSE IF args[1].t # "num" THEN Err("Primitive", st)
    ELSE IF Len(args) = 1
         THEN IF checked_neg(args[1].n) = <<>> THEN Err("Primitive", st)
              ELSE Ok(Number(checked_neg(args[1].n)[1]), st)
    ELSE subtract_from(st, args, 2, args[1].n)

RECURSIVE multiply_from(_, _, _, _)
multiply_from(st, args, i, acc) ==
    IF i > Len(args) THEN Ok(Number(acc), st)
    ELSE IF args[i].t # "num" THEN Err("Primitive", st)
    ELSE IF checked_mul(acc, args[i].n) = <<>> THEN Err("Primitive", st)
    ELSE multiply_from(st, args, i + 1, checked_mul(acc, args[i].n)[1])

multiply(st, args) == multiply_from(st, args, 1, 1)

\* i64::checked_div_euclid: nothing when the divisor is 0 or the quotient
\* overflows (the least number divided by -1)
checked_div_euclid(a, b) ==
    IF b = 0 THEN <<>>
    ELSE IF b > 0 THEN <<a \div b>>
    ELSE IF InRange(0 - (a \div (0 - b))) THEN <<0 - (a \div (0 - b))>>
    ELSE <<>>

RECURSIVE divide_from(_, _, _, _)
divide_from(st, args, i, acc) ==
    IF i > Len(args) THEN Ok(Number(acc), st)
    ELSE IF args[i].t # "num" THEN Err("Primitive", st)
    ELSE IF checked_div_euclid(acc, args[i].n) = <<>> THEN Err("Primitive", st)
    ELSE divide_from(st, args, i + 1, checked_div_euclid(acc, args[i].n)[1])

divide(st, args) ==
    IF Len(args) = 0 THEN Err("Primitive", st)
    ELSE IF Len(args) = 1
         THEN IF args[1].t # "num" THEN Err("Primitive", st)
              ELSE divide_from(st, args, 1, 1)
    ELSE IF args[1].t # "num" THEN Err("Primitive", st)
    ELSE divide_from(st, args, 2, args[1].n)

less(st, args) ==
    IF Len(args) # 2 THEN Err("Failure", st)
    ELSE IF args[1].t = "num" /\ args[2].t = "num"
         THEN Ok(Bool(args[1].n < args[2].n), st)
    ELSE Err("Failure", st)

equal(st, args) ==
    IF Len(args) # 2 THEN Err("Failure", st)
    ELSE Ok(Bool(args[1] = args[2]), st)

\* prn writes its arguments to the standard output and returns nil
prn(st, args) == Ok(Nil, [st EXCEPT !.out = Append(st.out, args)])

list(st, args) == Ok(List(args), st)

first(st, args) ==
    IF Len(args) # 1 THEN Err("Failure", st)
    ELSE IF args[1].t \in {"list", "vec"}
         THEN Ok(IF args[1].xs = <<>> THEN Nil ELSE args[1].xs[1], st)
    ELSE IF args[1].t = "nil" THEN Ok(Nil, st)
    ELSE Err("Failure", st)

ex_info(st, args) ==
    IF Len(args) # 2 THEN Err("Failure", st)
    ELSE IF args[1].t = "str" THEN Ok(Exception(args[1].s, args[2], FALSE), st)
    ELSE Err("Failure", st)

throw(st, args) ==
    IF Len(args) # 1 THEN Err("Failure", st)
    ELSE IF args[1].t \in {"nil", "bool", "num", "str", "kw", "sym", "list", "vec", "map"}
         THEN Ok(exception_into_thrown(Exception("", args[1], FALSE)), st)
    ELSE IF args[1].t = "exc" THEN Ok(exception_into_thrown(args[1]), st)
    ELSE Err("Failure", st)

eval(st, args) ==
    IF Len(args) # 1 THEN Err("Failure", st)
    ELSE evaluate_in_global_scope(st, args[1])

\* an atom is a RefCell: a cell of the heap with its borrow flag
atom_with_value(st, value) ==
    Ok(Atom(Len(st.atoms) + 1),
       [st EXCEPT !.atoms = Append(st.atoms, [v |-> value, borrowed |-> FALSE])])

to_atom(st, args) ==
    IF Len(args) # 1 THEN Err("Failure", st) ELSE atom_with_value(st, args[1])

atom_impl_into_inner(st, a) ==
    IF st.atoms[a.n].borrowed THEN Panic(st) ELSE Ok(st.atoms[a.n].v, st)

deref(st, args) ==
    IF Len(args) # 1 THEN Err("Failure", st)
    ELSE IF args[1].t = "atom" THEN atom_impl_into_inner(st, args[1])
    ELSE IF args[1].t = "var"
         THEN IF var_impl_into_inner(st, args[1]) = <<>>
              THEN Err("CannotDerefUnboundVar", st)
              ELSE Ok(var_impl_into_inner(st, args[1])[1], st)
    ELSE Err("Failure", st)

reset_atom(st, args) ==
    IF Len(args) # 2 THEN Err("Failure", st)
    ELSE IF args[1].t = "atom"
         THEN IF st.atoms[args[1].n].borrowed THEN Panic(st)
              ELSE Ok(args[2], [st EXCEPT !.atoms[args[1].n].v = args[2]])
    ELSE Err("Failure", st)

\* the end of swap!: the new value is stored on success, and the mutable
\* borrow of the cell ends on success and on error alike
swap_store(a, result) ==
    IF result.k = "panic" THEN result
    ELSE IF result.k = "err"
         THEN [result EXCEPT !.st.atoms[a.n].borrowed = FALSE]
    ELSE [result EXCEPT !.st.atoms[a.n] = [v |-> result.v, borrowed |-> FALSE]]

swap_atom(st, args) ==
    IF Len(args) < 2 THEN Err("Failure", st)
    ELSE IF args[1].t # "atom" THEN Err("Failure", st)
    ELSE
    LET a == args[1]
        fn_args == <<st.atoms[a.n].v>> \o SubSeq(args, 3, Len(args))
        borrow(s) == [s EXCEPT !.atoms[a.n].borrowed = TRUE]
    IN
    IF args[2].t = "fn"
    THEN IF st.atoms[a.n].borrowed THEN Panic(st)
         ELSE swap_store(a, apply_fn_inner(borrow(st), args[2], fn_args, FALSE))
    ELSE IF args[2].t = "fnc"
    THEN LET x == extend_from_captures(st, args[2].captures)
         IN IF x.k # "ok" THEN x
            ELSE IF st.atoms[a.n].borrowed THEN Panic(st)
            ELSE With(apply_fn_inner(borrow(x.st), FnImplOf(args[2]), fn_args, FALSE),
                      LAMBDA result :
                     IF result.k = "panic" THEN result
                     ELSE swap_store(a, [result EXCEPT !.st = leave_scope(result.st)]))
    ELSE IF args[2].t = "prim"
    THEN IF st.atoms[a.n].borrowed THEN Panic(st)
         ELSE swap_store(a, native_fn(borrow(st), args[2].s, fn_args))
    ELSE Err("Failure", st)

\* map applies f to the elements from the last to the first
map_apply(st, f, fn_args, i, acc) ==
    IF i = 0 THEN Ok(List(acc), st)
    ELSE With(IF f.t = "prim" THEN native_fn(st, f.s, <<fn_args[i]>>)
              ELSE apply_fn_inner(st, FnImplOf(f), <<fn_args[i]>>, FALSE), LAMBDA r :
             IF r.k # "ok" THEN r
             ELSE map_apply(r.st, f, fn_args, i - 1, <<r.v>> \o acc))

map(st, args) ==
    IF Len(args) # 2 THEN Err("Failure", st)
    ELSE IF args[2].t \notin {"list", "vec"} THEN Err("Failure", st)
    ELSE IF args[1].t \in {"fn", "prim"}
         THEN map_apply(st, args[1], args[2].xs, Len(args[2].xs), <<>>)
    ELSE IF args[1].t = "fnc"
         THEN LET x == extend_from_captures(st, args[1].captures)
              IN IF x.k # "ok" THEN x
                 ELSE With(map_apply(x.st, args[1], args[2].xs, Len(args[2].xs), <<>>),
                           LAMBDA r :
                          IF r.k # "ok" THEN r
                          ELSE [r EXCEPT !.st = leave_scope(r.st)])
    ELSE Err("WrongType", st)

cons(st, args) ==
    IF Len(args) # 2 THEN Err("Failure", st)
    ELSE IF args[2].t \in {"list", "vec"} THEN Ok(List(<<args[1]>> \o args[2].xs), st)
    ELSE Err("Failure", st)

RECURSIVE concat_from(_, _, _, _)
concat_from(st, args, i, elems) ==
    IF i > Len(args) THEN Ok(List(elems), st)
    ELSE IF args[i].t \in {"list", "vec"}
         THEN concat_from(st, args, i + 1, elems \o args[i].xs)
    ELSE Err("Failure", st)

concat(st, args) == concat_from(st, args, 1, <<>>)

vec(st, args) ==
    IF Len(args) # 1 THEN Err("Failure", st)
    ELSE IF args[1].t \in {"list", "vec"} THEN Ok(Vector(args[1].xs), st)
    ELSE IF args[1].t = "nil" THEN Ok(Vector(<<>>), st)
    ELSE Err("Failure", st)

BINDINGS ==
    <<"+", "<", "=", "prn", "list", "first", "ex-info", "throw", "eval",
      "atom", "deref", "reset!", "swap!", "map", "/",
      "cons", "concat", "vec", "-", "*">>

native_fn(st, name, args) ==
    CASE name = "+" -> plus(st, args)
      [] name = "-" -> subtract(st, args)
      [] name = "*" -> multiply(st, args)
      [] name = "<" -> less(st, args)
      [] name = "=" -> equal(st, args)
      [] name = "prn" -> prn(st, args)
      [] name = "list" -> list(st, args)
      [] name = "first" -> first(st, args)
      [] name = "ex-info" -> ex_info(st, args)
      [] name = "throw" -> throw(st, args)
      [] name = "eval" -> eval(st, args)
      [] name = "atom" -> to_atom(st, args)
      [] name = "deref" -> deref(st, args)
      [] name = "reset!" -> reset_atom(st, args)
      [] name = "swap!" -> swap_atom(st, args)
      [] name = "map" -> map(st, args)
      [] name = "/" -> divide(st, args)
      [] name = "cons" -> cons(st, args)
      [] name = "concat" -> concat(st, args)
      [] name = "vec" -> vec(st, args)

\* ------------------------------------------------------------------ interpreter

\* Interpreter::default(): the default scope resolves the special forms to
\* themselves, the namespace holds the prelude
COMMAND_LINE_ARGS_SYMBOL == "*command-line-args*"

Interpreter ==
    [scopes |-> << [f \in SPECIAL_FORMS |-> Symbol(f)] >>,
     ns |-> [name \in {BINDINGS[i] : i \in DOMAIN BINDINGS}
                        \cup {COMMAND_LINE_ARGS_SYMBOL} |->
                IF name = COMMAND_LINE_ARGS_SYMBOL THEN Len(BINDINGS) + 1
                ELSE CHOOSE i \in DOMAIN BINDINGS : BINDINGS[i] = name],
     vars |-> [i \in DOMAIN BINDINGS |-> <<Primitive(BINDINGS[i])>>]
                 \o << <<List(<<>>)>> >>,
     atoms |-> <<>>,
     out |-> <<>>]

\* ------------------------------------------------------------------ forms

\* The forms the reader hands to the interpreter, built as the reader
\* builds them: a list whose first element is the operator.
Call(operator, operands) == List(<<operator>> \o operands)
Apply(name, operands) == Call(Symbol(name), operands)
FnForm(params, body) == List(<<Symbol("fn*"), Vector(params)>> \o body)
DefForm(name, expr) == List(<<Symbol("def!"), Symbol(name), expr>>)
LetForm(bindings, body) == List(<<Symbol("let*"), Vector(bindings)>> \o body)
LoopForm(bindings, body) == List(<<Symbol("loop*"), Vector(bindings)>> \o body)
IfForm(predicate, consequent, alternate) ==
    List(<<Symbol("if"), predicate, consequent, alternate>>)
DoForm(forms) == List(<<Symbol("do")>> \o forms)
QuoteForm(form) == List(<<Symbol("quote"), form>>)
CatchForm(name, body) == List(<<Symbol("catch*"), Symbol(name)>> \o body)
TryForm(forms, name, body) ==
    List(<<Symbol("try*")>> \o forms \o <<CatchForm(name, body)>>)

\* ------------------------------------------------------------------ the machine

\* One step of the host: a form is handed to Interpreter::evaluate.  `pre` is
\* the interpreter as the call found it, `last` the form and what the call
\* returned, `hist` the forms evaluated so far.  A panic ends the process.
Init ==
    /\ interp = Interpreter
    /\ pre = Interpreter
    /\ last = [form |-> Nil, k |-> "none", v |-> Nil]
    /\ hist = <<>>
    /\ crashed = FALSE

Evaluate(form) ==
    /\ ~crashed
    /\ Len(hist) < MaxForms
    /\ LET r == evaluate(interp, form)
       IN /\ interp' = IF r.k = "panic" THEN interp ELSE r.st
          /\ last' = [form |-> form, k |-> r.k, v |-> r.v]
          /\ crashed' = (r.k = "panic")
    /\ pre' = interp
    /\ hist' = Append(hist, form)

\* ------------------------------------------------------------------ application

\* Deepest nesting of fn* forms in the programs below.
MaxDepth == 4

ParamNames == <<"a", "b", "c", "d", "e">>

\* (def! f (fn* [a b] ret)): the callee returns one of its parameters
DefCallee(ret) ==
    DefForm("f", FnForm(<<Symbol("a"), Symbol("b")>>, <<Symbol(ret)>>))
\* (def! g (fn* [x y] (f p q))): the caller passes its parameters on
DefCaller(p, q) ==
    DefForm("g", FnForm(<<Symbol("x"), Symbol("y")>>,
                        <<Apply("f", <<Symbol(p), Symbol(q)>>)>>))
\* (g v1 v2)
CallCaller(v1, v2) == Apply("g", <<Number(v1), Number(v2)>>)

\* (fn* [p_i] (fn* [p_i+1] ... (fn* [p_d] (+ p_1 p_d)))): the innermost
\* lambda refers to the parameter of the outermost one
RECURSIVE NestFn(_, _)
NestFn(i, d) ==
    FnForm(<<Symbol(ParamNames[i])>>,
           <<IF i = d
             THEN Apply("+", <<Symbol(ParamNames[1]), Symbol(ParamNames[d])>>)
             ELSE NestFn(i + 1, d)>>)
\* the lambdas applied one after the other to 1, 2, ..., k
RECURSIVE NestApply(_, _)
NestApply(d, k) ==
    IF k = 0 THEN NestFn(1, d) ELSE Call(NestApply(d, k - 1), <<Number(k)>>)
Nested(d) == NestApply(d, d)

ApplyForms ==
    {DefCallee(ret) : ret \in {"a", "b"}}
    \cup {DefCaller(pq[1], pq[2]) : pq \in {<<"x", "y">>, <<"y", "x">>}}
    \cup {CallCaller(v[1], v[2]) : v \in {<<1, 2>>, <<2, 1>>}}
    \cup {Nested(d) : d \in 2..MaxDepth}

NextApply == \E form \in ApplyForms : Evaluate(form)

SpecApply == Init /\ [][NextApply]_vars

\* C1: in (f a1 ... an) every operand is evaluated in the scope of the
\* caller, so the i-th parameter of the callee holds the value the i-th
\* operand has at the call: with f returning its parameter `ret`, g passing
\* its own parameters p and q on to f, (g v1 v2) returns the value g's scope
\* gives to the operand in the position of `ret`.
C1_OperandsEvaluatedInCallerScope ==
    \A ret \in {"a", "b"}, p \in {"x", "y"}, q \in {"x", "y"},
       v1 \in 1..2, v2 \in 1..2 :
        hist = <<DefCallee(ret), DefCaller(p, q), CallCaller(v1, v2)>>
        => /\ last.k = "ok"
           /\ last.v = Number(LET operand == IF ret = "a" THEN p ELSE q
                              IN IF operand = "x" THEN v1 ELSE v2)

\* C4: a parameter referenced by a lambda nested any number of levels below
\* its owner is captured by every lambda in between, so the lambdas of
\* Nested(d) can be applied one after the other and the innermost returns
\* the sum of the first and the last operand, 1 + d.
C4_CapturesHoistedThroughEveryLevel ==
    \A d \in 2..MaxDepth :
        last.form = Nested(d) => last.k = "ok" /\ last.v = Number(1 + d)

\* ------------------------------------------------------------------ scope stack

Undefined == Symbol("undefined")
\* (+ a nil): a primitive that fails on its operands
Failing(name) == Apply("+", <<Symbol(name), Nil>>)
\* ((fn* [a] (fn* [b] body)) 1): a closure over a
ClosureOver(body) ==
    Call(FnForm(<<Symbol("a")>>, <<FnForm(<<Symbol("b")>>, <<body>>)>>),
         <<Number(1)>>)
Sum(x, y) == Apply("+", <<Symbol(x), Symbol(y)>>)

\* ((fn* [a] (+ a a)) 1)
ScopeFnCall == Call(FnForm(<<Symbol("a")>>, <<Sum("a", "a")>>), <<Number(1)>>)
\* (((fn* [a] (fn* [b] (+ a b))) 1) 2)
ScopeClosureCall == Call(ClosureOver(Sum("a", "b")), <<Number(2)>>)
\* (let* [z 1] (loop* [n z] (if (< n 2) (recur (+ n z)) n)))
ScopeLetLoop ==
    LetForm(<<Symbol("z"), Number(1)>>,
            <<LoopForm(<<Symbol("n"), Symbol("z")>>,
                       <<IfForm(Apply("<", <<Symbol("n"), Number(2)>>),
                                Apply("recur", <<Sum("n", "z")>>),
                                Symbol("n"))>>)>>)
\* (try* (throw 1) (catch* e e))
ScopeCatch == TryForm(<<Apply("throw", <<Number(1)>>)>>, "e", <<Symbol("e")>>)
\* ((fn* [a] (let* [z a] (loop* [n z] (throw n)))) 1): a thrown exception
\* returned through a loop*, a let* and a function
ScopeThrown ==
    Call(FnForm(<<Symbol("a")>>,
                <<LetForm(<<Symbol("z"), Symbol("a")>>,
                          <<LoopForm(<<Symbol("n"), Symbol("z")>>,
                                     <<Apply("throw", <<Symbol("n")>>)>>)>>)>>),
         <<Number(1)>>)
\* (map ((fn* [a] (fn* [b] (+ a b))) 1) (list 1 2))
ScopeMap ==
    Apply("map", <<ClosureOver(Sum("a", "b")),
                   Apply("list", <<Number(1), Number(2)>>)>>)
\* (swap! (atom 1) ((fn* [a] (fn* [b] (+ a b))) 1))
ScopeSwap ==
    Apply("swap!", <<Apply("atom", <<Number(1)>>), ClosureOver(Sum("a", "b"))>>)
\* ((fn* [a] (+ a nil)) 1): an error in a function body
ScopeFnError == Call(FnForm(<<Symbol("a")>>, <<Failing("a")>>), <<Number(1)>>)
\* (let* [z undefined] z): an error in a let* binding value
ScopeLetError == LetForm(<<Symbol("z"), Undefined>>, <<Symbol("z")>>)
\* (loop* [n undefined] n): an error in a loop* binding value
ScopeLoopError == LoopForm(<<Symbol("n"), Undefined>>, <<Symbol("n")>>)
\* (map ((fn* [a] (fn* [b] (+ a nil))) 1) (list 1)): an error in a closure
\* that map applies
ScopeMapError ==
    Apply("map", <<ClosureOver(Failing("a")), Apply("list", <<Number(1)>>)>>)
\* ((((fn* [a] (fn* [b] (fn* [c] (quote (fn* [d] a))))) 1) 2) 3): the body
\* of the third lambda returns a closure whose capture is in no live frame
ScopeCaptureError ==
    Call(Call(Call(
        FnForm(<<Symbol("a")>>,
               <<FnForm(<<Symbol("b")>>,
                        <<FnForm(<<Symbol("c")>>,
                                 <<QuoteForm(FnForm(<<Symbol("d")>>,
                                                    <<Symbol("a")>>))>>)>>)>>),
        <<Number(1)>>), <<Number(2)>>), <<Number(3)>>)

ScopeForms ==
    {ScopeFnCall, ScopeClosureCall, ScopeLetLoop, ScopeCatch, ScopeThrown,
     ScopeMap, ScopeSwap, ScopeFnError, ScopeLetError, ScopeLoopError,
     ScopeMapError, ScopeCaptureError}

NextScopes == \E form \in ScopeForms : Evaluate(form)

SpecScopes == Init /\ [][NextScopes]_vars

\* C2: whenever evaluate returns a value, a thrown exception included, the
\* scope stack holds the frames it held before the call, in the same order.
C2_ScopesRestoredOnValue == last.k = "ok" => interp.scopes = pre.scopes

\* a closure is applied and returns, on a stack deeper than the default scope
C2_Witness ==
    /\ last.form = ScopeClosureCall
    /\ last.k = "ok"
    /\ last.v = Number(3)
    /\ Len(pre.scopes) > 1

\* C3: whenever evaluate returns an evaluation error, the scope stack is as
\* deep as it was before the call.
C3_ScopesRestoredOnError ==
    last.k = "err" => Len(interp.scopes) = Len(pre.scopes)

\* ------------------------------------------------------------------ thrown exceptions

\* (throw 7)
Thrown == Apply("throw", <<Number(7)>>)
\* (prn 1): a form whose evaluation shows on the standard output
Trace == Apply("prn", <<Number(1)>>)

Constructs ==
    {"do", "let*", "if", "fn", "primitive", "vector", "map", "def!"}

\* a construct with (throw 7) as one of its sub-forms and a form after it
Between(c) ==
    CASE c = "do" -> DoForm(<<Thrown, Trace>>)
      [] c = "let*" -> LetForm(<<Symbol("z"), Thrown>>, <<Trace>>)
      [] c = "if" -> IfForm(Thrown, Trace, Trace)
      [] c = "fn" -> Call(FnForm(<<Symbol("a")>>, <<Trace>>), <<Thrown>>)
      [] c = "primitive" -> Apply("list", <<Thrown, Trace>>)
      [] c = "vector" -> Vector(<<Thrown, Trace>>)
      [] c = "map" -> Map(<<Keyword("k"), Thrown>>)
      [] c = "def!" -> DefForm("v", Thrown)

\* (try* <construct> (catch* e e))
Guarded(c) == TryForm(<<Between(c)>>, "e", <<Symbol("e")>>)

PropagateForms == {Guarded(c) : c \in Constructs} \cup {Symbol("v")}

NextPropagate == \E form \in PropagateForms : Evaluate(form)

SpecPropagate == Init /\ [][NextPropagate]_vars

\* C5: a thrown exception produced inside a construct of a try* reaches the
\* catch* of that try*: the try* returns what its catch body returns for the
\* exception, and nothing after the throw is evaluated (nothing is printed,
\* no var is interned).
C5_ThrownPropagatesToTry ==
    \A c \in Constructs :
        last.form = Guarded(c)
        => /\ last.k = "ok"
           /\ last.v = Exception("", Number(7), FALSE)
           /\ interp.out = pre.out
           /\ interp.ns = pre.ns

\* ------------------------------------------------------------------ try* / catch* programs

TryKinds == {"prn", "throw", "ex-info"}

\* the i-th form of a try*: (prn i), (throw i) or (ex-info "m" i)
TryElem(kind, i) ==
    CASE kind = "prn" -> Apply("prn", <<Number(i)>>)
      [] kind = "throw" -> Apply("throw", <<Number(i)>>)
      [] kind = "ex-info" -> Apply("ex-info", <<String("m"), Number(i)>>)

TryBody(kinds) == [i \in 1..Len(kinds) |-> TryElem(kinds[i], i)]

\* (try* e1 e2 (catch* e (prn mark) e))
TryCatch(kinds, mark) ==
    TryForm(TryBody(kinds), "e", <<Apply("prn", <<mark>>), Symbol("e")>>)

TryContexts == {"top", "fn", "nested"}

\* the try* at the top level, in the body of a function whose parameter the
\* catch body refers to, and in the body of the innermost of three lambdas
\* with the catch body referring to the parameter of the outermost
TryIn(ctx, kinds) ==
    CASE ctx = "top" -> TryCatch(kinds, Number(9))
      [] ctx = "fn" ->
            Call(FnForm(<<Symbol("a")>>, <<TryCatch(kinds, Symbol("a"))>>),
                 <<Number(9)>>)
      [] ctx = "nested" ->
            Call(Call(Call(
                FnForm(<<Symbol("a")>>,
                       <<FnForm(<<Symbol("b")>>,
                                <<FnForm(<<Symbol("c")>>,
                                         <<TryCatch(kinds, Symbol("a"))>>)>>)>>),
                <<Number(9)>>), <<Number(2)>>), <<Number(3)>>)

KindPairs == {<<k1, k2>> : k1 \in TryKinds, k2 \in TryKinds}

TryForms == {TryIn(ctx, kinds) : ctx \in TryContexts, kinds \in KindPairs}

NextTry == \E form \in TryForms : Evaluate(form)

SpecTry == Init /\ [][NextTry]_vars

\* what the first n forms of the try* print
RECURSIVE TryTrace(_, _)
TryTrace(kinds, n) ==
    IF n = 0 THEN <<>>
    ELSE TryTrace(kinds, n - 1)
         \o (IF kinds[n] = "prn" THEN << <<Number(n)>> >> ELSE <<>>)

\* the positions of the forms that throw
Throwing(kinds) == {i \in 1..Len(kinds) : kinds[i] = "throw"}
FirstThrowing(kinds) ==
    CHOOSE i \in Throwing(kinds) : \A j \in Throwing(kinds) : i <= j

\* the value of the i-th form
TryValue(kinds, i) ==
    CASE kinds[i] = "prn" -> Nil
      [] kinds[i] = "throw" -> Exception("", Number(i), TRUE)
      [] kinds[i] = "ex-info" -> Exception("m", Number(i), FALSE)

\* C6: (try* e1 ... en (catch* ex body...)) runs the catch body exactly when
\* some ei throws: the forms after ei are not evaluated, the body sees the
\* exception of ei and its value is the value of the try*; when no ei throws
\* (an exception made by ex-info is not thrown) the body is not evaluated and
\* the value is that of en.  Either way the frame of the catch* is gone.
C6_CatchRunsExactlyOnThrown ==
    \A ctx \in TryContexts, kinds \in KindPairs :
        last.form = TryIn(ctx, kinds)
        => /\ last.k = "ok"
           /\ interp.scopes = pre.scopes
           /\ IF Throwing(kinds) # {}
              THEN /\ last.v = Exception("", Number(FirstThrowing(kinds)), FALSE)
                   /\ interp.out = pre.out
                          \o TryTrace(kinds, FirstThrowing(kinds) - 1)
                          \o << <<Number(9)>> >>
              ELSE /\ last.v = TryValue(kinds, Len(kinds))
                   /\ interp.out = pre.out \o TryTrace(kinds, Len(kinds))

\* ------------------------------------------------------------------ sequences

\* Number of forms evaluated in a run of the sequence programs.
MaxSeqForms == 2

\* the i-th form of a sequence: (prn i) writes to the output, (def! v i)
\* sets a var, (reset! (atom 0) i) sets an atom, (throw i) yields a thrown
\* exception and (+ nil) an evaluation error
SeqElem(kind, i) ==
    CASE kind = "prn" -> Apply("prn", <<Number(i)>>)
      [] kind = "def" -> DefForm("v", Number(i))
      [] kind = "atom" ->
            Apply("reset!", <<Apply("atom", <<Number(0)>>), Number(i)>>)
      [] kind = "throw" -> Apply("throw", <<Number(i)>>)
      [] kind = "error" -> Apply("+", <<Nil>>)

SeqBody(kinds) == [i \in 1..Len(kinds) |-> SeqElem(kinds[i], i)]

SeqConstructs == {"do", "fn*", "let*", "loop*"}

\* (do e...), ((fn* [] e...)), (let* [z 0] e...), (loop* [z 0] e...)
SeqIn(c, kinds) ==
    CASE c = "do" -> DoForm(SeqBody(kinds))
      [] c = "fn*" -> Call(FnForm(<<>>, SeqBody(kinds)), <<>>)
      [] c = "let*" -> LetForm(<<Symbol("z"), Number(0)>>, SeqBody(kinds))
      [] c = "loop*" -> LoopForm(<<Symbol("z"), Number(0)>>, SeqBody(kinds))

\* The analyzer of fn* resolves every symbol of the body, the name of a def!
\* included, so a def! of a new var is left out of the function bodies.
SeqKinds(c) ==
    {<<>>,
     <<"prn", "atom">>,
     <<"atom", "prn">>,
     <<"prn", "throw", "atom">>,
     <<"atom", "error", "prn">>,
     <<"throw", "prn">>}
    \cup (IF c = "fn*" THEN {}
          ELSE {<<"def", "prn", "def">>,
                <<"def", "throw", "def">>,
                <<"prn", "error", "def">>})

SeqForms == {SeqIn(c, kinds) : c \in SeqConstructs, kinds \in SeqKinds("do")}
            \ {SeqIn("fn*", kinds) : kinds \in SeqKinds("do") \ SeqKinds("fn*")}

NextSeq ==
    /\ Len(hist) < MaxSeqForms
    /\ \E form \in SeqForms : Evaluate(form)

SpecSeq == Init /\ [][NextSeq]_vars

\* the positions of the forms that end the sequence early
Stopping(kinds) == {i \in 1..Len(kinds) : kinds[i] \in {"throw", "error"}}
\* the number of forms evaluated to a value that is not a thrown exception
Completed(kinds) ==
    IF Stopping(kinds) = {} THEN Len(kinds)
    ELSE (CHOOSE i \in Stopping(kinds) : \A j \in Stopping(kinds) : i <= j) - 1

\* what the first n forms print, and the atoms they make
RECURSIVE SeqTrace(_, _)
SeqTrace(kinds, n) ==
    IF n = 0 THEN <<>>
    ELSE SeqTrace(kinds, n - 1)
         \o (IF kinds[n] = "prn" THEN << <<Number(n)>> >> ELSE <<>>)
RECURSIVE SeqAtoms(_, _)
SeqAtoms(kinds, n) ==
    IF n = 0 THEN <<>>
    ELSE SeqAtoms(kinds, n - 1)
         \o (IF kinds[n] = "atom"
             THEN <<[v |-> Number(n), borrowed |-> FALSE]>> ELSE <<>>)
\* the positions among the first n that set the var v
SeqDefs(kinds, n) == {i \in 1..n : kinds[i] = "def"}

\* what the namespace holds for a name: <<>> when it is not interned
Resolved(st, name) ==
    IF name \in DOMAIN st.ns THEN <<st.vars[st.ns[name]]>> ELSE <<>>

\* C7: the forms of a do and of a function, let* or loop* body are evaluated
\* from left to right, each once; the first form that yields a thrown
\* exception or an evaluation error ends the sequence, which returns that
\* exception or error with none of the later forms evaluated: the output,
\* the atoms and the var are those the forms before it left.  Otherwise the
\* sequence returns the value of its last form, and nil when it has none.
C7_SequencesLeftToRight ==
    \A c \in SeqConstructs :
      \A kinds \in SeqKinds(c) :
        last.form = SeqIn(c, kinds)
        => LET n == Completed(kinds)
           IN /\ interp.out = pre.out \o SeqTrace(kinds, n)
              /\ interp.atoms = pre.atoms \o SeqAtoms(kinds, n)
              /\ Resolved(interp, "v") =
                    IF SeqDefs(kinds, n) = {} THEN Resolved(pre, "v")
                    ELSE << <<Number(CHOOSE i \in SeqDefs(kinds, n) :
                                        \A j \in SeqDefs(kinds, n) : j <= i)>> >>
              /\ IF n < Len(kinds)
                 THEN IF kinds[n + 1] = "throw"
                      THEN /\ last.k = "ok"
                           /\ last.v = Exception("", Number(n + 1), TRUE)
                      ELSE last.k = "err"
                 ELSE /\ last.k = "ok"
                      /\ CASE n = 0 -> last.v = Nil
                            [] n > 0 /\ kinds[n] = "prn" -> last.v = Nil
                            [] n > 0 /\ kinds[n] = "atom" -> last.v = Number(n)
                            [] n > 0 /\ kinds[n] = "def" ->
                                  last.v.t = "var" /\ last.v.s = "v"

\* a function body stops at its second form, which throws, after the first
\* form printed and with the atom of the third form never made
C7_Witness ==
    /\ last.form = SeqIn("fn*", <<"prn", "throw", "atom">>)
    /\ exception_is_thrown(last.v)
    /\ interp.out = pre.out \o << <<Number(1)>> >>
    /\ interp.atoms = pre.atoms
    /\ pre.out # <<>>

\* ------------------------------------------------------------------ def!

DefNames == {"a", "b"}

\* (+ nil): an expression whose evaluation is an error
Fails == Apply("+", <<Nil>>)
\* (do (def! inner 2) (+ nil)): it defines a var and then fails
DefinesThenFails(inner) == DoForm(<<DefForm(inner, Number(2)), Fails>>)

FailingExprs == {Fails} \cup {DefinesThenFails(inner) : inner \in DefNames}

DefForms ==
    {DefForm(sym, Number(1)) : sym \in DefNames}
    \cup {DefForm(sym, expr) : sym \in DefNames, expr \in FailingExprs}
    \cup {Symbol(sym) : sym \in DefNames}

NextDef == \E form \in DefForms : Evaluate(form)

SpecDef == Init /\ [][NextDef]_vars

\* sym names the var it named before the call, holding what it held, or is
\* interned neither before nor after
SameResolution(sym) ==
    /\ sym \in DOMAIN interp.ns <=> sym \in DOMAIN pre.ns
    /\ sym \in DOMAIN pre.ns
       => /\ interp.ns[sym] = pre.ns[sym]
          /\ interp.vars[pre.ns[sym]] = pre.vars[pre.ns[sym]]

\* the form holds a (def! name ...) somewhere inside
RECURSIVE DefinesIn(_, _)
DefinesIn(form, name) ==
    /\ form.t \in {"list", "vec", "map"}
    /\ \/ /\ form.t = "list"
          /\ Len(form.xs) >= 2
          /\ form.xs[1] = Symbol("def!")
          /\ form.xs[2] = Symbol(name)
       \/ \E i \in 1..Len(form.xs) : DefinesIn(form.xs[i], name)

Shadowing(name) == LetForm(<<Symbol(name), Number(3)>>, <<Symbol(name)>>)

OuterBindings == {"let*", "fn*", "var", "forward"}

\* a name bound to 1 (or to what resolves to 1), shadowed by an inner let*,
\* and looked up again after the inner let* has exited
Shadowed(outer) ==
    CASE outer = "let*" ->
            \* (let* [a 1] (let* [a 3] a) a)
            LetForm(<<Symbol("a"), Number(1)>>, <<Shadowing("a"), Symbol("a")>>)
      [] outer = "fn*" ->
            \* ((fn* [a] (let* [a 3] a) a) 1)
            Call(FnForm(<<Symbol("a")>>, <<Shadowing("a"), Symbol("a")>>),
                 <<Number(1)>>)
      [] outer = "var" ->
            \* (let* [a (var x)] (let* [a 3] a) a)
            LetForm(<<Symbol("a"), List(<<Symbol("var"), Symbol("x")>>)>>,
                    <<Shadowing("a"), Symbol("a")>>)
      [] outer = "forward" ->
            \* (let* [f (fn* [] (g)) g (fn* [] 1)] (let* [g 3] g) (f))
            LetForm(<<Symbol("f"), FnForm(<<>>, <<Call(Symbol("g"), <<>>)>>),
                      Symbol("g"), FnForm(<<>>, <<Number(1)>>)>>,
                    <<Shadowing("g"), Call(Symbol("f"), <<>>)>>)

LetForms ==
    {DefForm("x", Number(1)), DefForm("a", Number(1)), Shadowing("a"),
     Symbol("a"), Symbol("x")}
    \cup {Shadowed(outer) : outer \in OuterBindings}

NextLet == \E form \in LetForms : Evaluate(form)

SpecLet == Init /\ [][NextLet]_vars

\* C9: a let* shadows an outer binding of the same name only inside itself:
\* with x defined as 1, a name that an enclosing let*, a parameter, a var
\* taken with (var x) or a forward declaration makes resolve to 1 still
\* resolves to 1 after an inner let* bound it to 3, and x is still 1; and
\* after (def! a 1) (let* [a 3] a) the var a still holds 1.
C9_LetShadowsOnlyInside ==
    /\ \A outer \in OuterBindings :
          hist = <<DefForm("x", Number(1)), Shadowed(outer)>>
          => /\ last.k = "ok"
             /\ last.v = Number(1)
             /\ Resolved(interp, "x") = << <<Number(1)>> >>
    /\ hist = <<DefForm("a", Number(1)), Shadowing("a"), Symbol("a")>>
       => last.k = "ok" /\ last.v = Number(1)

\* ------------------------------------------------------------------ loop* / recur

\* Largest start and largest bound of the counting loops.
MaxCount == 4
\* Number of forms evaluated in a run of the loop programs.
MaxLoopForms == 1

\* (if (< n K) <again> <done>)
Below(name, bound, again, done) ==
    IfForm(Apply("<", <<Symbol(name), bound>>), again, done)
\* (+ 1 n)
Succ(name) == Apply("+", <<Number(1), Symbol(name)>>)

LoopKinds == {"plain", "fn*", "traced", "swapped"}

CountingLoop(kind, i, K) ==
    CASE kind = "plain" ->
            \* (loop* [n i] (if (< n K) (recur (+ 1 n)) n))
            LoopForm(<<Symbol("n"), Number(i)>>,
                     <<Below("n", Number(K), Apply("recur", <<Succ("n")>>),
                             Symbol("n"))>>)
      [] kind = "fn*" ->
            \* ((fn* [i] (loop* [n i] (if (< n K) (recur (+ 1 n)) n))) i)
            Call(FnForm(<<Symbol("i")>>,
                        <<LoopForm(<<Symbol("n"), Symbol("i")>>,
                                   <<Below("n", Number(K),
                                           Apply("recur", <<Succ("n")>>),
                                           Symbol("n"))>>)>>),
                 <<Number(i)>>)
      [] kind = "traced" ->
            \* (loop* [n i acc 0]
            \*   (prn n) (if (< n K) (recur (+ 1 n) (+ acc n)) (list n acc)))
            LoopForm(<<Symbol("n"), Number(i), Symbol("acc"), Number(0)>>,
                     <<Apply("prn", <<Symbol("n")>>),
                       Below("n", Number(K),
                             Apply("recur", <<Succ("n"), Sum("acc", "n")>>),
                             Apply("list", <<Symbol("n"), Symbol("acc")>>))>>)
      [] kind = "swapped" ->
            \* (loop* [a i b K] (if (< a b) (recur b a) (list a b)))
            LoopForm(<<Symbol("a"), Number(i), Symbol("b"), Number(K)>>,
                     <<Below("a", Symbol("b"),
                             Apply("recur", <<Symbol("b"), Symbol("a")>>),
                             Apply("list", <<Symbol("a"), Symbol("b")>>))>>)

LoopForms ==
    {CountingLoop(kind, i, K) : kind \in LoopKinds, i \in 0..MaxCount,
                                K \in 0..MaxCount}

NextLoop ==
    /\ Len(hist) < MaxLoopForms
    /\ \E form \in LoopForms : Evaluate(form)

SpecLoop == Init /\ [][NextLoop]_vars

Max(x, y) == IF x < y THEN y ELSE x
\* i + (i + 1) + ... + (K - 1)
RECURSIVE SumBelow(_, _)
SumBelow(i, K) == IF i >= K THEN 0 ELSE i + SumBelow(i + 1, K)
\* what the traced loop prints: n at each evaluation of the body
Counted(i, K) == [j \in 1..(Max(i, K) - i + 1) |-> <<Number(i + j - 1)>>]

RecurTop(i) == Apply("recur", <<Number(i)>>)
\* ((fn* [x] (recur x)) i): the tail of a function that no loop* encloses
RecurInFn(i) == Call(FnForm(<<Symbol("x")>>, <<Apply("recur", <<Symbol("x")>>)>>),
                     <<Number(i)>>)
\* (do (recur i) i): a recur that is not the last form of a do
RecurInDo(i) == DoForm(<<Apply("recur", <<Number(i)>>), Number(i)>>)
\* (loop* [n 0] (if (< n i) (recur (+ 1 n)) n)): a recur in its place
RecurInLoop(i) == CountingLoop("plain", 0, i)

RecurEscaping == {RecurTop(i) : i \in 1..2} \cup {RecurInFn(i) : i \in 1..2}
RecurDiscarded == {RecurInDo(i) : i \in 1..2}

RecurForms == RecurEscaping \cup RecurDiscarded \cup {RecurInLoop(i) : i \in 1..2}

NextRecur == \E form \in RecurForms : Evaluate(form)

SpecRecur == Init /\ [][NextRecur]_vars

\* C11: a recur anywhere but the tail of a loop* body is an error: no
\* evaluation returns a Recur value, from a top-level form or from a function
\* that no loop* encloses, and a do whose non-final form is a recur returns an
\* error instead of going on to the next form.
C11_RecurOutsideLoopIsError ==
    /\ last.k = "ok" => last.v.t # "recur"
    /\ last.form \in RecurEscaping \cup RecurDiscarded => last.k = "err"

\* ------------------------------------------------------------------ macros

DefMacroForm(name, params, body) ==
    List(<<Symbol("defmacro!"), Symbol(name),
           FnForm([i \in DOMAIN params |-> Symbol(params[i])], body)>>)

\* (defmacro! once (fn* [x] x)), (defmacro! again (fn* [x] (list 'once x))),
\* (defmacro! unless (fn* [p a b] (list 'if p b a))),
\* (defmacro! ignore (fn* [x] 7)), (defmacro! traced (fn* [x] (prn 0) x))
MacroDef(name) ==
    CASE name = "once" -> DefMacroForm("once", <<"x">>, <<Symbol("x")>>)
      [] name = "again" ->
            DefMacroForm("again", <<"x">>,
                <<Apply("list", <<QuoteForm(Symbol("once")), Symbol("x")>>)>>)
      [] name = "unless" ->
            DefMacroForm("unless", <<"p", "a", "b">>,
                <<Apply("list", <<QuoteForm(Symbol("if")), Symbol("p"),
                                  Symbol("b"), Symbol("a")>>)>>)
      [] name = "ignore" -> DefMacroForm("ignore", <<"x">>, <<Number(7)>>)
      [] name = "traced" ->
            DefMacroForm("traced", <<"x">>,
                <<Apply("prn", <<Number(0)>>), Symbol("x")>>)

MacroNames == {"once", "again", "unless", "ignore", "traced"}

MacroUses == {"once", "again", "unless", "ignore", "traced", "let*", "fn*"}

\* a use of a macro with operands that print when they are evaluated
MacroUse(use) ==
    CASE use = "once" -> Apply("once", <<Apply("prn", <<Number(1)>>)>>)
      [] use = "again" -> Apply("again", <<Apply("prn", <<Number(1)>>)>>)
      [] use = "unless" ->
            Apply("unless", <<Bool(FALSE), Apply("prn", <<Number(1)>>),
                              Apply("prn", <<Number(2)>>)>>)
      [] use = "ignore" -> Apply("ignore", <<Apply("prn", <<Number(1)>>)>>)
      [] use = "traced" -> Apply("traced", <<Apply("prn", <<Number(1)>>)>>)
      \* (let* [y 5] (once y))
      [] use = "let*" ->
            LetForm(<<Symbol("y"), Number(5)>>, <<Apply("once", <<Symbol("y")>>)>>)
      \* ((fn* [y] (unless false y (prn 2))) 5)
      [] use = "fn*" ->
            Call(FnForm(<<Symbol("y")>>,
                        <<Apply("unless", <<Bool(FALSE), Symbol("y"),
                                            Apply("prn", <<Number(2)>>)>>)>>),
                 <<Number(5)>>)

\* the macros a use needs
MacrosOf(use) ==
    CASE use \in {"once", "let*"} -> {"once"}
      [] use = "again" -> {"once", "again"}
      [] use \in {"unless", "fn*"} -> {"unless"}
      [] use = "ignore" -> {"ignore"}
      [] use = "traced" -> {"traced"}

MacroForms == {MacroDef(name) : name \in MacroNames} \cup {MacroUse(use) : use \in MacroUses}

NextMacro == \E form \in MacroForms : Evaluate(form)

SpecMacro == Init /\ [][NextMacro]_vars

\* the name resolves to a macro in the namespace
IsMacro(st, name) ==
    /\ Resolved(st, name) # <<>>
    /\ Resolved(st, name)[1] # <<>>
    /\ Resolved(st, name)[1][1].t = "macro"

\* what a use returns and what it prints
MacroValue(use) ==
    IF use = "ignore" THEN Number(7)
    ELSE IF use \in {"let*", "fn*"} THEN Number(5)
    ELSE Nil
MacroTrace(use) ==
    CASE use \in {"once", "again", "unless"} -> << <<Number(1)>> >>
      [] use = "traced" -> << <<Number(0)>>, <<Number(1)>> >>
      [] OTHER -> <<>>

\* C12: when the head of a list resolves to a macro the operands reach the
\* macro unevaluated (an operand the macro drops prints nothing, and what the
\* macro body prints comes before what the operand prints), the result is
\* expanded again while its head is a macro, and the final expansion is
\* evaluated once, in the scope of the caller: each operand that ends up in
\* the expansion prints once, and a name of the caller's let* or function
\* resolves to the caller's value.
C12_MacroOperandsUnevaluated ==
    \A use \in MacroUses :
        (last.form = MacroUse(use) /\ \A name \in MacrosOf(use) : IsMacro(pre, name))
        => /\ last.k = "ok"
           /\ last.v = MacroValue(use)
           /\ interp.out = pre.out \o MacroTrace(use)
           /\ interp.scopes = pre.scopes

C12_Witness ==
    /\ last.form = MacroUse("again")
    /\ IsMacro(pre, "again") /\ IsMacro(pre, "once")
    /\ interp.out = << <<Number(1)>> >>

\* ------------------------------------------------------------------ eval

\* (eval (quote form)): the form reaches eval as read-string would hand it over
EvalQuoted(form) == Apply("eval", <<QuoteForm(form)>>)

EvalUses == {"let*", "fn*", "after", "def!", "thrown", "error", "leak"}

EvalUse(use) ==
    CASE use = "let*" ->
            \* (let* [a 12] (eval 'a))
            LetForm(<<Symbol("a"), Number(12)>>, <<EvalQuoted(Symbol("a"))>>)
      [] use = "fn*" ->
            \* ((fn* [a] (eval 'a)) 12)
            Call(FnForm(<<Symbol("a")>>, <<EvalQuoted(Symbol("a"))>>), <<Number(12)>>)
      [] use = "after" ->
            \* (let* [a 12] (eval 'a) a)
            LetForm(<<Symbol("a"), Number(12)>>,
                    <<EvalQuoted(Symbol("a")), Symbol("a")>>)
      [] use = "def!" ->
            \* (let* [a 12] (eval '(def! a 2)) a)
            LetForm(<<Symbol("a"), Number(12)>>,
                    <<EvalQuoted(DefForm("a", Number(2))), Symbol("a")>>)
      [] use = "thrown" ->
            \* (let* [a 12 z (eval '(throw 1))] a)
            LetForm(<<Symbol("a"), Number(12),
                      Symbol("z"), EvalQuoted(Apply("throw", <<Number(1)>>))>>,
                    <<Symbol("a")>>)
      [] use = "error" ->
            \* (let* [a 12] (eval 'undefined))
            LetForm(<<Symbol("a"), Number(12)>>, <<EvalQuoted(Undefined)>>)
      [] use = "leak" ->
            \* (let* [a 12] (eval '(loop* [n undefined] n))): the loop* leaves
            \* its own frame behind when its binding fails
            LetForm(<<Symbol("a"), Number(12)>>,
                    <<EvalQuoted(LoopForm(<<Symbol("n"), Undefined>>, <<Symbol("n")>>))>>)

EvalForms == {DefForm("a", Number(1))} \cup {EvalUse(use) : use \in EvalUses}

NextEval == \E form \in EvalForms : Evaluate(form)

SpecEval == Init /\ [][NextEval]_vars

\* C13: eval sees the default frame only: a name of the caller's let* or
\* parameter list resolves inside eval to the namespace var of that name (an
\* error when there is none), and a def! inside eval sets the namespace var.
\* When eval returns, the caller's frames are back: the caller goes on to
\* resolve its own names, and it pops its own frame, after a value, after a
\* thrown exception and after an error (a frame the evaluated form itself
\* left behind stays below the caller's frames).
C13_EvalSeesOnlyDefaultScope ==
    /\ \A use \in {"let*", "fn*"} :
          last.form = EvalUse(use)
          => /\ interp.scopes = pre.scopes
             /\ IF Resolved(pre, "a") = <<>> THEN last.k = "err"
                ELSE last.k = "ok" /\ <<last.v>> = Resolved(pre, "a")[1]
    /\ last.form = EvalUse("after")
          => /\ interp.scopes = pre.scopes
             /\ IF Resolved(pre, "a") = <<>> THEN last.k = "err"
                ELSE last.k = "ok" /\ last.v = Number(12)
    /\ last.form = EvalUse("def!")
          => /\ interp.scopes = pre.scopes
             /\ last.k = "ok" /\ last.v = Number(12)
             /\ Resolved(interp, "a") = << <<Number(2)>> >>
    /\ last.form = EvalUse("thrown")
          => interp.scopes = pre.scopes /\ last.k = "ok" /\ last.v = Number(12)
    /\ last.form = EvalUse("error")
          => interp.scopes = pre.scopes /\ last.k = "err"
    /\ last.form = EvalUse("leak")
          => interp.scopes = Append(pre.scopes, EmptyMap) /\ last.k = "err"

C13_Witness ==
    /\ last.form = EvalUse("let*")
    /\ Resolved(pre, "a") = << <<Number(1)>> >>
    /\ last.v = Number(1)

\* ------------------------------------------------------------------ swap!

\* (def! a (atom 1))
DefAtom == DefForm("a", Apply("atom", <<Number(1)>>))
\* (deref a)
DerefAtom == Apply("deref", <<Symbol("a")>>)

SwapKinds == {"fn*", "closure", "primitive", "error", "reentrant"}

Swap(kind) ==
    CASE kind = "fn*" ->
            \* (swap! a (fn* [v x] (+ v x)) 2)
            Apply("swap!", <<Symbol("a"),
                             FnForm(<<Symbol("v"), Symbol("x")>>, <<Sum("v", "x")>>),
                             Number(2)>>)
      [] kind = "closure" ->
            \* (swap! a ((fn* [k] (fn* [v] (+ v k))) 10))
            Apply("swap!", <<Symbol("a"),
                             Call(FnForm(<<Symbol("k")>>,
                                         <<FnForm(<<Symbol("v")>>, <<Sum("v", "k")>>)>>),
                                  <<Number(10)>>)>>)
      [] kind = "primitive" ->
            \* (swap! a + 1 2)
            Apply("swap!", <<Symbol("a"), Symbol("+"), Number(1), Number(2)>>)
      [] kind = "error" ->
            \* (swap! a (fn* [v] (+ v nil)))
            Apply("swap!", <<Symbol("a"),
                             FnForm(<<Symbol("v")>>,
                                    <<Apply("+", <<Symbol("v"), Nil>>)>>)>>)
      [] kind = "reentrant" ->
            \* (swap! a (fn* [v] (reset! a (+ v 1)))): f itself writes the atom
            Apply("swap!", <<Symbol("a"),
                             FnForm(<<Symbol("v")>>,
                                    <<Apply("reset!",
                                            <<Symbol("a"),
                                              Apply("+", <<Symbol("v"), Number(1)>>)>>)>>)>>)

SwapForms == {DefAtom, DerefAtom} \cup {Swap(kind) : kind \in SwapKinds}

NextSwap == \E form \in SwapForms : Evaluate(form)

SpecSwap == Init /\ [][NextSwap]_vars

\* a is bound to an atom; the value the atom holds
HasAtom(st) ==
    /\ Resolved(st, "a") # <<>>
    /\ Resolved(st, "a")[1] # <<>>
    /\ Resolved(st, "a")[1][1].t = "atom"
AtomValue(st) == st.atoms[Resolved(st, "a")[1][1].n].v

\* f(prev, x...) for the f and the x of each swap!
Swapped(kind, prev) ==
    CASE kind = "fn*" -> prev + 2
      [] kind = "closure" -> prev + 10
      [] kind = "primitive" -> prev + 3
      [] kind = "reentrant" -> prev + 1

\* C14: (swap! a f x...) returns f(prev, x...) for a user function, a closure
\* and a primitive, and the atom holds that value afterwards, which a later
\* (deref a) returns; when f returns an evaluation error the atom still holds
\* prev.
C14_SwapStoresResult ==
    HasAtom(pre)
    => /\ \A kind \in SwapKinds \ {"error"} :
              last.form = Swap(kind)
              => /\ last.k = "ok"
                 /\ last.v = Number(Swapped(kind, AtomValue(pre).n))
                 /\ AtomValue(interp) = last.v
       /\ last.form = Swap("error")
              => last.k = "err" /\ AtomValue(interp) = AtomValue(pre)
       /\ last.form = DerefAtom
              => last.k = "ok" /\ last.v = AtomValue(pre)

\* ------------------------------------------------------------------ arity

\* Most fixed parameters, and most operands, of the calls below.
MaxArity == 2
MaxOperands == 3

FixedNames == <<"a", "b", "c", "d">>
Fixed(arity) == [i \in 1..arity |-> Symbol(FixedNames[i])]
Numbers(from, to) == [i \in 1..(to - from + 1) |-> Number(from + i - 1)]

\* ((fn* [a b & r] (prn 1) (list a b r)) 1 2 3), for each number of fixed
\* parameters, with and without & r, and for each number of operands
ArityCall(arity, variadic, n) ==
    LET params == Fixed(arity)
                  \o (IF variadic THEN <<Symbol("&"), Symbol("r")>> ELSE <<>>)
        names == Fixed(arity) \o (IF variadic THEN <<Symbol("r")>> ELSE <<>>)
    IN Call(FnForm(params, <<Trace, Apply("list", names)>>), Numbers(1, n))

\* ((fn* [a a & r] (prn 1) r) 1 2 3): a parameter name written twice
RepeatedCall(n) ==
    Call(FnForm(<<Symbol("a"), Symbol("a"), Symbol("&"), Symbol("r")>>,
                <<Trace, Symbol("r")>>),
         Numbers(1, n))

ArityForms ==
    {ArityCall(arity, variadic, n) :
        arity \in 0..MaxArity, variadic \in BOOLEAN, n \in 0..MaxOperands}
    \cup {RepeatedCall(n) : n \in {MaxOperands}}

NextArity == \E form \in ArityForms : Evaluate(form)

SpecArity == Init /\ [][NextArity]_vars

Accepts(arity, variadic, n) == IF variadic THEN n >= arity ELSE n = arity

\* C15: a call with n operands succeeds only if n = arity, or n >= arity for a
\* variadic function; on a mismatch an error is returned and the body is not
\* evaluated (it prints nothing); a variadic function gets its first arity
\* values in the fixed parameters and the others, in order, as a list in the
\* parameter after &, the empty list when n = arity.
C15_ArityAndVariadicBinding ==
    /\ \A arity \in 0..MaxArity, variadic \in BOOLEAN, n \in 0..MaxOperands :
           last.form = ArityCall(arity, variadic, n)
           => IF Accepts(arity, variadic, n)
              THEN /\ last.k = "ok"
                   /\ last.v = List(Numbers(1, arity)
                                    \o (IF variadic
                                        THEN <<List(Numbers(arity + 1, n))>>
                                        ELSE <<>>))
                   /\ interp.out = pre.out \o << <<Number(1)>> >>
              ELSE /\ last.k = "err"
                   /\ interp = pre
    /\ last.form = RepeatedCall(MaxOperands)
           => /\ last.k = "ok"
              /\ \E arity \in 0..MaxOperands :
                     last.v = List(Numbers(arity + 1, MaxOperands))

\* ------------------------------------------------------------------ if

\* Forms evaluated in a run of the if programs.
MaxIfForms == 2

PredicateKinds ==
    {"nil", "false", "true", "zero", "empty string", "empty list", "empty vector"}

PredicateValue(kind) ==
    CASE kind = "nil" -> Nil
      [] kind = "false" -> Bool(FALSE)
      [] kind = "true" -> Bool(TRUE)
      [] kind = "zero" -> Number(0)
      [] kind = "empty string" -> String("")
      [] kind = "empty list" -> List(<<>>)
      [] kind = "empty vector" -> Vector(<<>>)

Truthy(kind) == kind \notin {"nil", "false"}

\* (do (prn 0) p), (do (prn 1) 10), (do (prn 2) 20) and (/ 1 0)
Predicate(kind) == DoForm(<<Apply("prn", <<Number(0)>>), PredicateValue(kind)>>)
Consequent == DoForm(<<Apply("prn", <<Number(1)>>), Number(10)>>)
Alternate == DoForm(<<Apply("prn", <<Number(2)>>), Number(20)>>)
DivisionByZero == Apply("/", <<Number(1), Number(0)>>)

IfShapes == {"both", "no alternate", "division"}

\* (if p c a), (if p c), and an if whose other branch divides by zero:
\* (if p c (/ 1 0)) for a truthy p, (if p (/ 1 0)) for a falsey one
If(kind, shape) ==
    CASE shape = "both" -> IfForm(Predicate(kind), Consequent, Alternate)
      [] shape = "no alternate" ->
            List(<<Symbol("if"), Predicate(kind), Consequent>>)
      [] shape = "division" ->
            IF Truthy(kind)
            THEN IfForm(Predicate(kind), Consequent, DivisionByZero)
            ELSE List(<<Symbol("if"), Predicate(kind), DivisionByZero>>)

IfForms ==
    {If(kind, shape) : kind \in PredicateKinds, shape \in IfShapes}
    \cup {DivisionByZero}

NextIf ==
    /\ Len(hist) < MaxIfForms
    /\ \E form \in IfForms : Evaluate(form)

SpecIf == Init /\ [][NextIf]_vars

\* what the if returns and what its selected branch prints
IfValue(kind, shape) ==
    IF Truthy(kind) THEN Number(10)
    ELSE IF shape = "both" THEN Number(20) ELSE Nil
IfTrace(kind, shape) ==
    IF Truthy(kind) THEN << <<Number(1)>> >>
    ELSE IF shape = "both" THEN << <<Number(2)>> >> ELSE <<>>

\* C16: (if p c a) evaluates p once and then one branch: a when p is nil or
\* false (nil when there is no a), c for every other value of p, 0, "", the
\* empty list and the empty vector included; the other branch is not
\* evaluated, so a division by zero in it prints nothing and raises nothing.
C16_IfEvaluatesOneBranch ==
    \A kind \in PredicateKinds, shape \in IfShapes :
        last.form = If(kind, shape)
        => /\ last.k = "ok"
           /\ last.v = IfValue(kind, shape)
           /\ interp.out = pre.out \o << <<Number(0)>> >> \o IfTrace(kind, shape)
           /\ [interp EXCEPT !.out = pre.out] = pre

C16_Witness ==
    /\ last.form = If("false", "division")
    /\ last.k = "ok"
    /\ last.v = Nil
    /\ interp.out = pre.out \o << <<Number(0)>> >>
    /\ \E i \in 1..Len(hist) : /\ hist[i] = DivisionByZero
                              /\ i < Len(hist)

\* ------------------------------------------------------------------ errors in try*

\* Forms evaluated in a run of the programs below.
MaxErrorForms == 2

ErrorKinds == {"unresolved", "arity", "special arity", "uninvocable",
               "division", "operand type"}

\* a form that returns an evaluation error
Erring(kind) ==
    CASE kind = "unresolved" -> Undefined
      [] kind = "arity" -> Call(FnForm(<<Symbol("a")>>, <<Symbol("a")>>), <<>>)
      [] kind = "special arity" -> List(<<Symbol("quote")>>)
      [] kind = "uninvocable" -> Call(Number(1), <<Number(2)>>)
      [] kind = "division" -> DivisionByZero
      [] kind = "operand type" -> Apply("+", <<Nil>>)

ErrorPlaces == {"alone", "after", "in fn*", "in let*", "in try*"}

\* the handler prints 9 and returns 99
Handler == <<Apply("prn", <<Number(9)>>), Number(99)>>

\* (try* ... (catch* e (prn 9) 99)) around the erring form
TryErring(kind, place) ==
    CASE place = "alone" -> TryForm(<<Erring(kind)>>, "e", Handler)
      [] place = "after" ->
            TryForm(<<Apply("prn", <<Number(0)>>), Erring(kind), Trace>>,
                    "e", Handler)
      [] place = "in fn*" ->
            TryForm(<<Call(FnForm(<<>>, <<Erring(kind)>>), <<>>)>>, "e", Handler)
      [] place = "in let*" ->
            TryForm(<<LetForm(<<Symbol("x"), Erring(kind)>>, <<Symbol("x")>>)>>,
                    "e", Handler)
      [] place = "in try*" ->
            TryForm(<<TryForm(<<Erring(kind)>>, "e", Handler)>>, "e", Handler)

\* (try* (prn 0) (throw 7) (prn 1) (catch* e (prn 9) 99))
TryThrowing ==
    TryForm(<<Apply("prn", <<Number(0)>>), Thrown, Trace>>, "e", Handler)

TryErrorForms ==
    {TryErring(kind, place) : kind \in ErrorKinds, place \in ErrorPlaces}
    \cup {TryThrowing}

NextTryError ==
    /\ Len(hist) < MaxErrorForms
    /\ \E form \in TryErrorForms : Evaluate(form)

SpecTryError == Init /\ [][NextTryError]_vars

\* C17: an evaluation error raised inside the forms of a try* is not caught:
\* the try* returns an error, the forms after the erring one and the catch*
\* body are not evaluated (neither 1 nor 9 is printed); a throw is caught.
C17_ErrorsAreNotCaught ==
    /\ \A kind \in ErrorKinds, place \in ErrorPlaces :
           last.form = TryErring(kind, place)
           => /\ last.k = "err"
              /\ interp.out = pre.out \o (IF place = "after"
                                          THEN << <<Number(0)>> >> ELSE <<>>)
    /\ last.form = TryThrowing
           => /\ last.k = "ok"
              /\ last.v = Number(99)
              /\ interp.out = pre.out \o << <<Number(0)>>, <<Number(9)>> >>

C17_Witness ==
    /\ last.form = TryErring("division", "after")
    /\ last.k = "err"
    /\ interp.out = pre.out \o << <<Number(0)>> >>
    /\ \E i \in 1..Len(hist) : hist[i] = TryThrowing /\ i < Len(hist)

\* ------------------------------------------------------------------ catch* binding

CatchBodies == {"returns", "rethrows", "throws"}

\* (try* (throw "e1") (catch* e ...)) with the body e, (throw e) or (throw "e2")
Catching(body) ==
    TryForm(<<Apply("throw", <<String("e1")>>)>>, "e",
            CASE body = "returns" -> <<Symbol("e")>>
              [] body = "rethrows" -> <<Apply("throw", <<Symbol("e")>>)>>
              [] body = "throws" -> <<Apply("throw", <<String("e2")>>)>>)

CatchPlaces == {"alone", "in do", "in try*", "before in try*"}

\* the try* above alone, in (do ... (prn 1) 5), in (try* ... (catch* e (prn 9) "c2"))
\* and in (try* ... (prn 1) 5 (catch* e (prn 9) "c2"))
CatchIn(body, place) ==
    CASE place = "alone" -> Catching(body)
      [] place = "in do" -> DoForm(<<Catching(body), Trace, Number(5)>>)
      [] place = "in try*" ->
            TryForm(<<Catching(body)>>, "e",
                    <<Apply("prn", <<Number(9)>>), String("c2")>>)
      [] place = "before in try*" ->
            TryForm(<<Catching(body), Trace, Number(5)>>, "e",
                    <<Apply("prn", <<Number(9)>>), String("c2")>>)

CatchForms == {CatchIn(body, place) : body \in CatchBodies, place \in CatchPlaces}

NextCatch == \E form \in CatchForms : Evaluate(form)

SpecCatch == Init /\ [][NextCatch]_vars

\* the exception the inner catch* body yields
Caught(body) ==
    IF body = "throws" THEN Exception("", String("e2"), body # "returns")
    ELSE Exception("", String("e1"), body # "returns")

\* C18: the exception bound by catch* has thrown = false: returned unchanged
\* it is an ordinary value, after which an enclosing do goes on (prints 1,
\* returns 5) and an enclosing try* does not run its catch* (9 is not
\* printed); an exception the catch* body throws stops the enclosing do and
\* runs the catch* of the enclosing try*, which yields "c2".
C18_CaughtExceptionIsNotThrown ==
    \A body \in CatchBodies, place \in CatchPlaces :
        last.form = CatchIn(body, place)
        => /\ last.k = "ok"
           /\ IF body = "returns"
              THEN /\ last.v = IF place \in {"alone", "in try*"}
                               THEN Caught(body) ELSE Number(5)
                   /\ ~exception_is_thrown(last.v)
                   /\ interp.out = pre.out \o (IF place \in {"alone", "in try*"}
                                               THEN <<>> ELSE << <<Number(1)>> >>)
              ELSE /\ last.v = IF place \in {"alone", "in do"}
                               THEN Caught(body) ELSE String("c2")
                   /\ interp.out = pre.out \o (IF place \in {"alone", "in do"}
                                               THEN <<>> ELSE << <<Number(9)>> >>)

C18_Witness ==
    /\ last.form = CatchIn("throws", "in try*")
    /\ last.v = String("c2")
    /\ \E i \in 1..Len(hist) :
           /\ hist[i] = CatchIn("returns", "before in try*")
           /\ i < Len(hist)

\* ------------------------------------------------------------------ defmacro!

MacroExprs == {"fn*", "number", "closure", "error"}

\* (defmacro! m expr) with expr (fn* [x] x), 5, ((fn* [k] (fn* [v] k)) 1)
\* and an unresolved symbol
DefMacro(expr) ==
    List(<<Symbol("defmacro!"), Symbol("m"),
           CASE expr = "fn*" -> FnForm(<<Symbol("x")>>, <<Symbol("x")>>)
             [] expr = "number" -> Number(5)
             [] expr = "closure" ->
                   Call(FnForm(<<Symbol("k")>>,
                               <<FnForm(<<Symbol("v")>>, <<Symbol("k")>>)>>),
                        <<Number(1)>>)
             [] expr = "error" -> Undefined>>)

DefMacroForms ==
    {DefMacro(expr) : expr \in MacroExprs} \cup {DefForm("m", Number(1)), Symbol("m")}

NextDefMacro == \E form \in DefMacroForms : Evaluate(form)

SpecDefMacro == Init /\ [][NextDefMacro]_vars

\* C19: (defmacro! m expr) succeeds only for an expr that evaluates to a
\* fn* without captures, and m then resolves to a macro; when expr returns an
\* error or another value an error is returned and m resolves as it did
\* before the form, to its prior value if it had one.
C19_FailedDefMacroRestores ==
    /\ last.form = DefMacro("fn*") => last.k = "ok" /\ IsMacro(interp, "m")
    /\ \A expr \in MacroExprs \ {"fn*"} :
           last.form = DefMacro(expr) => last.k = "err" /\ SameResolution("m")

\* ------------------------------------------------------------------ macroexpand

\* (macroexpand (quote v)): macroexpand applied to the value v
Expand(v) == List(<<Symbol("macroexpand"), QuoteForm(v)>>)
\* (macroexpand (macroexpand (quote v))): macroexpand applied to its own result
ExpandTwice(v) == List(<<Symbol("macroexpand"), Expand(v)>>)

ThreeSum == Apply("+", <<Number(1), Number(2)>>)

ExpandArgs ==
    {Number(5), Symbol("y"), Vector(<<Symbol("once"), Number(1)>>), List(<<>>),
     ThreeSum,
     Apply("once", <<ThreeSum>>),
     Apply("again", <<Number(5)>>),
     Apply("once", <<Apply("again", <<ThreeSum>>)>>),
     Apply("unless", <<Symbol("p"), Symbol("a"), Symbol("b")>>)}

ExpandedMacros == {"once", "again", "unless"}

ExpandForms ==
    {MacroDef(name) : name \in ExpandedMacros}
    \cup {Expand(v) : v \in ExpandArgs}
    \cup {ExpandTwice(Apply("once", <<Apply("again", <<ThreeSum>>)>>))}

NextExpand == \E form \in ExpandForms : Evaluate(form)

SpecExpand == Init /\ [][NextExpand]_vars

\* the head of the list v resolves to a macro
HeadIsMacro(st, v) ==
    /\ v.t = "list"
    /\ v.xs # <<>>
    /\ v.xs[1].t = "sym"
    /\ IsMacro(st, v.xs[1].s)

\* C20: macroexpand returns unchanged a value that is not a list and a list
\* whose head does not resolve to a macro; a result of macroexpand is such a
\* value (when it is a list its head does not resolve to a macro), so that
\* macroexpand applied to it returns it again.
C20_MacroexpandReachesFixedPoint ==
    /\ \A v \in ExpandArgs :
           last.form = Expand(v)
           => /\ ~HeadIsMacro(pre, v) => last.k = "ok" /\ last.v = v
              /\ last.k = "ok"
                 => /\ ~HeadIsMacro(interp, last.v)
                    /\ With(evaluate(interp, Expand(last.v)), LAMBDA again :
                           /\ again.k = "ok"
                           /\ again.v = last.v
                           /\ again.st = interp)
    /\ \A v \in ExpandArgs :
           (last.form = ExpandTwice(v) /\ last.k = "ok")
           => With(evaluate(pre, Expand(v)), LAMBDA once :
                  once.k = "ok" /\ once.v = last.v)

C20_Witness ==
    /\ last.form = Expand(Apply("once", <<Apply("again", <<ThreeSum>>)>>))
    /\ HeadIsMacro(pre, Apply("once", <<Number(1)>>))
    /\ HeadIsMacro(pre, Apply("again", <<Number(1)>>))
    /\ last.k = "ok"
    /\ last.v = ThreeSum

\* ------------------------------------------------------------------ quasiquote forms

\* Forms evaluated in a run of the quasiquote programs, and most elements of
\* a quasiquoted list or vector.
MaxQuasiForms == 1
MaxQuasiLen == 2

ElemKinds ==
    {"symbol", "number", "keyword", "nil", "empty", "map", "unquote", "splice",
     "nested", "vector", "data", "bare splice"}

Three == Apply("+", <<Number(1), Number(2)>>)
OneTwo == Apply("list", <<Number(1), Number(2)>>)

\* an element of the quasiquoted form
Elem(kind) ==
    CASE kind = "symbol" -> Symbol("a")
      [] kind = "number" -> Number(5)
      [] kind = "keyword" -> Keyword("k")
      [] kind = "nil" -> Nil
      [] kind = "empty" -> List(<<>>)
      [] kind = "map" -> Map(<<Keyword("k"), Symbol("a")>>)
      [] kind = "unquote" -> Apply("unquote", <<Three>>)
      [] kind = "splice" -> Apply("splice-unquote", <<OneTwo>>)
      \* (b (unquote (+ 1 2)) (splice-unquote (list 1 2)))
      [] kind = "nested" ->
            Apply("b", <<Apply("unquote", <<Three>>),
                         Apply("splice-unquote", <<OneTwo>>)>>)
      \* [c (unquote (+ 1 2)) unquote]
      [] kind = "vector" ->
            Vector(<<Symbol("c"), Apply("unquote", <<Three>>), Symbol("unquote")>>)
      [] kind = "data" -> Symbol("splice-unquote")
      [] kind = "bare splice" -> Apply("splice-unquote", <<>>)

\* the values the element stands for in the result
Produced(kind) ==
    CASE kind = "unquote" -> <<Number(3)>>
      [] kind = "splice" -> <<Number(1), Number(2)>>
      [] kind = "nested" -> <<List(<<Symbol("b"), Number(3), Number(1), Number(2)>>)>>
      [] kind = "vector" -> <<Vector(<<Symbol("c"), Number(3), Symbol("unquote")>>)>>
      [] OTHER -> <<Elem(kind)>>

KindSeqs == UNION {[1..n -> ElemKinds] : n \in 0..MaxQuasiLen}

RECURSIVE ProducedBy(_, _)
ProducedBy(kinds, i) ==
    IF i > Len(kinds) THEN <<>> ELSE Produced(kinds[i]) \o ProducedBy(kinds, i + 1)

Quasi(kinds, vector) ==
    List(<<Symbol("quasiquote"),
           IF vector THEN Vector([i \in DOMAIN kinds |-> Elem(kinds[i])])
           ELSE List([i \in DOMAIN kinds |-> Elem(kinds[i])])>>)

\* ((fn* [x] (quasiquote (x (unquote x)))) 5)
QuasiInFn ==
    Call(FnForm(<<Symbol("x")>>,
                <<List(<<Symbol("quasiquote"),
                         List(<<Symbol("x"), Apply("unquote", <<Symbol("x")>>)>>)>>)>>),
         <<Number(5)>>)

QuasiForms ==
    {Quasi(kinds, vector) : kinds \in KindSeqs, vector \in BOOLEAN} \cup {QuasiInFn}

NextQuasi ==
    /\ Len(hist) < MaxQuasiForms
    /\ \E form \in QuasiForms : Evaluate(form)

SpecQuasi == Init /\ [][NextQuasi]_vars

\* C21: (quasiquote (x1 ... xn)) yields, in order, the elements of the value
\* of e for xi = (splice-unquote e), the value of e for xi = (unquote e), and
\* the quasiquoted xi otherwise (a symbol, number, keyword, nil or map as it
\* is, an empty list as an empty list); a vector yields the same elements as a
\* vector; unquote and splice-unquote that are not the head of a list are data.
C21_QuasiquoteConcatenates ==
    /\ \A kinds \in KindSeqs, vector \in BOOLEAN :
           last.form = Quasi(kinds, vector)
           => /\ last.k = "ok"
              /\ last.v = IF vector THEN Vector(ProducedBy(kinds, 1))
                          ELSE List(ProducedBy(kinds, 1))
              /\ interp = pre
    /\ last.form = QuasiInFn
           => last.k = "ok" /\ last.v = List(<<Symbol("x"), Number(5)>>)

\* ------------------------------------------------------------------ redefinition

\* (def! b 12), (def! b 22)
DefB(n) == DefForm("b", Number(n))
\* (def! f (fn* [a] (+ a b))) and (f 1)
DefAdder == DefForm("f", FnForm(<<Symbol("a")>>, <<Sum("a", "b")>>))
CallAdder == Apply("f", <<Number(1)>>)
\* (do (def! b 22) (f 1))
RedefineAndCall == DoForm(<<DefB(22), CallAdder>>)
\* (def! g (fn* [n] (if (= n 0) :done (g (+ n -1))))) and (g 2)
DefCountdown ==
    DefForm("g", FnForm(<<Symbol("n")>>,
                        <<IfForm(Apply("=", <<Symbol("n"), Number(0)>>),
                                 Keyword("done"),
                                 Apply("g", <<Apply("+", <<Symbol("n"), Number(-1)>>)>>))>>))
CallCountdown == Apply("g", <<Number(2)>>)

RedefForms ==
    {DefB(12), DefB(22), DefAdder, CallAdder, RedefineAndCall, DefCountdown,
     CallCountdown}

NextRedef == \E form \in RedefForms : Evaluate(form)

SpecRedef == Init /\ [][NextRedef]_vars

\* name holds a function / a number
HoldsFn(st, name) ==
    /\ Resolved(st, name) # <<>>
    /\ Resolved(st, name)[1] # <<>>
    /\ Resolved(st, name)[1][1].t \in {"fn", "fnc"}
NumberOf(st, name) == Resolved(st, name)[1][1].n

\* C22: def! of a name that is interned updates the var in place: the name
\* keeps its var, a function defined before that references the name computes
\* with the new value ((f 1) is 1 + b for the b of the call, 23 after
\* (def! b 22)), and a function calls itself through the var being defined.
C22_DefUpdatesVarInPlace ==
    /\ \A n \in {12, 22} :
           (last.form = DefB(n) /\ "b" \in DOMAIN pre.ns)
           => interp.ns = pre.ns /\ NumberOf(interp, "b") = n
    /\ (last.form = CallAdder /\ HoldsFn(pre, "f"))
           => last.k = "ok" /\ last.v = Number(1 + NumberOf(pre, "b"))
    /\ (last.form = RedefineAndCall /\ HoldsFn(pre, "f"))
           => last.k = "ok" /\ last.v = Number(23)
    /\ (last.form = CallCountdown /\ HoldsFn(pre, "g"))
           => last.k = "ok" /\ last.v = Keyword("done")

C22_Witness ==
    /\ Len(hist) = 3
    /\ hist[1] = DefB(12)
    /\ hist[2] = DefAdder
    /\ last.form = RedefineAndCall
    /\ last.v = Number(23)

\* ------------------------------------------------------------------ local functions

\* (fn* [n] (if (= n 0) :success (next (+ n -1))))
Descending(next) ==
    FnForm(<<Symbol("n")>>,
           <<IfForm(Apply("=", <<Symbol("n"), Number(0)>>),
                    Keyword("success"),
                    Apply(next, <<Apply("+", <<Symbol("n"), Number(-1)>>)>>))>>)

LocalKinds == {"self", "mutual", "rebound", "returned"}

\* a let* whose fn* bindings reference a name of the same let*
LocalFns(kind, from) ==
    CASE kind = "self" ->
            \* (let* [f (fn* [n] ... (f (+ n -1)))] (f 2))
            LetForm(<<Symbol("f"), Descending("f")>>, <<Apply("f", <<Number(from)>>)>>)
      [] kind = "mutual" ->
            \* (let* [f (fn* [n] ... (g (+ n -1))) g (fn* [n] (f n))] (f 2))
            LetForm(<<Symbol("f"), Descending("g"),
                      Symbol("g"), FnForm(<<Symbol("n")>>,
                                          <<Apply("f", <<Symbol("n")>>)>>)>>,
                    <<Apply("f", <<Number(from)>>)>>)
      [] kind = "rebound" ->
            \* (let* [f (fn* [n] ... (g (+ n -1))) g (fn* [n] :first) g (fn* [n] (f n))] (f 2))
            LetForm(<<Symbol("f"), Descending("g"),
                      Symbol("g"), FnForm(<<Symbol("n")>>, <<Keyword("first")>>),
                      Symbol("g"), FnForm(<<Symbol("n")>>,
                                          <<Apply("f", <<Symbol("n")>>)>>)>>,
                    <<Apply("f", <<Number(from)>>)>>)
      [] kind = "returned" ->
            \* ((let* [f (fn* [n] ... (f (+ n -1)))] f) 2)
            Call(LetForm(<<Symbol("f"), Descending("f")>>, <<Symbol("f")>>),
                 <<Number(from)>>)

\* the same let* evaluated in the body of a called function
LocalFnsInFn(kind, from) ==
    IF kind = "returned"
    THEN Call(Call(FnForm(<<>>, <<LocalFns(kind, from).xs[1]>>), <<>>),
              <<Number(from)>>)
    ELSE Call(FnForm(<<>>, <<LocalFns(kind, from)>>), <<>>)

\* the number the top-level recursions start from, and the one in a function
LocalFrom == 2
LocalFromInFn == 1

LocalForms ==
    {LocalFns(kind, LocalFrom) : kind \in LocalKinds}
    \cup {LocalFnsInFn(kind, LocalFromInFn) : kind \in LocalKinds}

NextLocal == \E form \in LocalForms : Evaluate(form)

SpecLocal == Init /\ [][NextLocal]_vars

\* the recursions whose calls are made while the let* is being evaluated, and
\* the function a top-level let* returns
CalledInLet ==
    {LocalFns(kind, LocalFrom) : kind \in LocalKinds}
    \cup {LocalFnsInFn(kind, LocalFromInFn) : kind \in LocalKinds \ {"returned"}}

MaxParams == 3
MaxParamForms == 2

ParamElems == {Symbol("a"), Symbol("&"), Symbol("r"), Number(1)}

RECURSIVE ParamSeqs(_)
ParamSeqs(n) ==
    IF n = 0 THEN {<<>>}
    ELSE ParamSeqs(n - 1)
         \cup {Append(ps, e) : ps \in {qs \in ParamSeqs(n - 1) : Len(qs) = n - 1},
                               e \in ParamElems}

\* (fn* params &)
AmpFn(params) == FnForm(params, <<Symbol("&")>>)

\* ((fn* params &) 1 2 ...), one operand for each element of params
AmpCall(params) == Call(AmpFn(params), [i \in 1..Len(params) |-> Number(i)])

\* the first & of params is the last element or stands before a non-symbol
Dangling(params) ==
    \E i \in 1..Len(params) :
        /\ params[i] = Symbol("&")
        /\ \A j \in 1..(i - 1) : params[j] # Symbol("&")
        /\ (i = Len(params) \/ params[i + 1].t # "sym")

ParamForms ==
    {AmpFn(params) : params \in ParamSeqs(MaxParams)}
    \cup {AmpCall(params) : params \in ParamSeqs(MaxParams)}

NextParam == Len(hist) < MaxParamForms /\ \E form \in ParamForms : Evaluate(form)

SpecParam == Init /\ [][NextParam]_vars

\* C24: a fn* whose parameter vector has an & that no symbol follows is
\* rejected with an error when the fn* form is evaluated; no function with an
\* ordinary parameter named & comes out of it.
C24_DanglingAmpersandIsRejected ==
    \A params \in ParamSeqs(MaxParams) :
        Dangling(params) /\ last.form \in {AmpFn(params), AmpCall(params)}
        => last.k = "err"

\* ------------------------------------------------------------------ arithmetic

MaxOperandCount == 3
MaxArithForms == 1

ArithOps == {"+", "-", "*", "/"}
ArithNumbers == {IntMin, -1, 0, 1, 2, IntMax}

RECURSIVE OperandSeqs(_)
OperandSeqs(n) ==
    IF n = 0 THEN {<<>>}
    ELSE OperandSeqs(n - 1)
         \cup {Append(ns, m) : ns \in {os \in OperandSeqs(n - 1) : Len(os) = n - 1},
                               m \in ArithNumbers}

\* (op n1 ... nk)
Arith(op, ns) == Apply(op, [i \in 1..Len(ns) |-> Number(ns[i])])

ArithForms == {Arith(op, ns) : op \in ArithOps, ns \in OperandSeqs(MaxOperandCount)}

NextArith == Len(hist) < MaxArithForms /\ \E form \in ArithForms : Evaluate(form)

SpecArith == Init /\ [][NextArith]_vars

\* the operator and the operands of an arithmetic form
OpOf(form) == form.xs[1].s
OperandsOf(form) == [i \in 1..(Len(form.xs) - 1) |-> form.xs[i + 1].n]

\* the left fold of op over the first i operands in unbounded integers; (- n)
\* is the negation of n
RECURSIVE Exact(_, _, _)
Exact(op, ns, i) ==
    CASE op = "+" -> IF i = 0 THEN 0 ELSE Exact(op, ns, i - 1) + ns[i]
      [] op = "*" -> IF i = 0 THEN 1 ELSE Exact(op, ns, i - 1) * ns[i]
      [] op = "-" -> IF i = 1 THEN (IF Len(ns) = 1 THEN 0 - ns[1] ELSE ns[1])
                     ELSE Exact(op, ns, i - 1) - ns[i]

Overflows(op, ns) == \E i \in 1..Len(ns) : ~InRange(Exact(op, ns, i))

\* the quotient q of a by b # 0 with a = q * b + r and 0 <= r < |b|
Quotient(a, b) ==
    CHOOSE q \in (IntMin - 1)..(IntMax + 1) :
        \E r \in 0..((IF b < 0 THEN 0 - b ELSE b) - 1) : a = q * b + r

\* dividing acc by the operands from i on meets a divisor 0 or a quotient
\* outside the range
RECURSIVE DivisionFails(_, _, _)
DivisionFails(acc, ns, i) ==
    IF i > Len(ns) THEN FALSE
    ELSE \/ ns[i] = 0
         \/ ~InRange(Quotient(acc, ns[i]))
         \/ DivisionFails(Quotient(acc, ns[i]), ns, i + 1)

QuotientFails(ns) ==
    IF Len(ns) = 1 THEN DivisionFails(1, ns, 1) ELSE DivisionFails(ns[1], ns, 2)

\* C25: + - * fold left over their operands and return an error whenever an
\* intermediate result leaves the range of the integer word, never a wrapped
\* value, with (+) = 0 and (*) = 1; / returns an error, and does not abort,
\* when a divisor is 0 or the quotient overflows.
C25_CheckedArithmetic ==
    last.form \in ArithForms =>
        LET op == OpOf(last.form)
            ns == OperandsOf(last.form)
        IN IF op = "/"
           THEN ns # <<>> /\ QuotientFails(ns) => last.k = "err"
           ELSE IF op = "-" /\ ns = <<>> THEN TRUE
           ELSE IF Overflows(op, ns) THEN last.k = "err"
           ELSE last.k = "ok" /\ last.v = Number(Exact(op, ns, Len(ns)))

\* a sum whose second step overflows has returned an error, although its exact
\* value lies in the range again
C25_Witness ==
    /\ last.form = Arith("+", <<IntMax, 1, -1>>)
    /\ last.k = "err"
    /\ InRange(Exact("+", <<IntMax, 1, -1>>, 3))

\* ------------------------------------------------------------------ reader

\* the reader's forms; the text of a form is its sequence of characters
FormSymbol(text) == [t |-> "Symbol", text |-> text, elems |-> <<>>]
FormComment(text) == [t |-> "Comment", text |-> text, elems |-> <<>>]
FormWhitespace(text) == [t |-> "Whitespace", text |-> text, elems |-> <<>>]
FormMap(elems) == [t |-> "Map", text |-> <<>>, elems |-> elems]

Newline == "\n"
WhitespaceChars == {" ", ",", Newline}
IdentifierChars == {"a", "b"}

\* the first position from i on whose character is not in chars
RECURSIVE skip_many(_, _, _)
skip_many(input, i, chars) ==
    IF i <= Len(input) /\ input[i] \in chars THEN skip_many(input, i + 1, chars)
    ELSE i

\* skip_until(or(eof(), newline())): the first newline from i on, or the end
RECURSIVE skip_until_newline(_, _)
skip_until_newline(input, i) ==
    IF i <= Len(input) /\ input[i] # Newline THEN skip_until_newline(input, i + 1)
    ELSE i

Slice(input, from, to) == SubSeq(input, from, to - 1)

RECURSIVE read_forms(_, _, _)

\* between(char('{'), char('}'), read_forms()) from the character after {
map_elems(input, i) ==
    With(read_forms(input, i, <<>>), LAMBDA inner :
        IF ~inner.ok THEN inner
        ELSE IF inner.next <= Len(input) /\ input[inner.next] = "}"
        THEN [ok |-> TRUE, forms |-> <<FormMap(inner.forms)>>, next |-> inner.next + 1]
        ELSE [ok |-> FALSE, forms |-> <<>>, next |-> inner.next])

\* many(choice((whitespace, ..., symbol, comment, ..., map, ...))) from i on:
\* it ends without an error where no alternative begins
read_forms(input, i, forms) ==
    IF i > Len(input) THEN [ok |-> TRUE, forms |-> forms, next |-> i]
    ELSE IF input[i] \in WhitespaceChars
    THEN LET end == skip_many(input, i, WhitespaceChars)
         IN read_forms(input, end, Append(forms, FormWhitespace(Slice(input, i, end))))
    ELSE IF input[i] \in IdentifierChars
    THEN LET end == skip_many(input, i, IdentifierChars)
         IN read_forms(input, end, Append(forms, FormSymbol(Slice(input, i, end))))
    ELSE IF input[i] = ";"
    THEN LET end == skip_until_newline(input, i + 1)
         IN read_forms(input, IF end <= Len(input) THEN end + 1 ELSE end,
                       Append(forms, FormComment(Slice(input, i + 1, end))))
    ELSE IF input[i] = "{"
    THEN With(map_elems(input, i + 1), LAMBDA literal :
             IF ~literal.ok THEN literal
             ELSE read_forms(input, literal.next, forms \o literal.forms))
    ELSE [ok |-> TRUE, forms |-> forms, next |-> i]

\* read: the forms of the whole input, or an error
read(input) ==
    With(read_forms(input, 1, <<>>), LAMBDA result :
        IF result.ok /\ result.next > Len(input)
        THEN [k |-> "ok", v |-> result.forms]
        ELSE [k |-> "err", v |-> <<>>])

Read(input) ==
    /\ ~crashed
    /\ Len(hist) < MaxForms
    /\ last' = [form |-> input, k |-> read(input).k, v |-> read(input).v]
    /\ hist' = Append(hist, input)
    /\ UNCHANGED <<interp, pre, crashed>>

MaxInput == 5
MaxReads == 1

ReadChars == {"{", "}", "a", "b", " ", ";", Newline}

RECURSIVE Inputs(_)
Inputs(n) ==
    IF n = 0 THEN {<<>>}
    ELSE Inputs(n - 1)
         \cup {Append(input, c) : input \in {in \in Inputs(n - 1) : Len(in) = n - 1},
                                  c \in ReadChars}

NextRead == Len(hist) < MaxReads /\ \E input \in Inputs(MaxInput) : Read(input)

SpecRead == Init /\ [][NextRead]_vars

\* the element forms of a map that are neither whitespace nor comments
Elements(elems) ==
    SelectSeq(elems, LAMBDA form : form.t \notin {"Whitespace", "Comment"})

\* every map among forms, at any depth, has an even number of element forms
RECURSIVE EvenMaps(_)
EvenMaps(forms) ==
    \A i \in 1..Len(forms) :
        forms[i].t = "Map"
        => Len(Elements(forms[i].elems)) % 2 = 0 /\ EvenMaps(forms[i].elems)

\* C26: read returns an error for a map literal with an odd number of element
\* forms, whitespace and comments not counted; a map form that read returns has
\* an even number of element forms.
C26_OddMapIsAReaderError ==
    last.k = "ok" /\ last.form \in Inputs(MaxInput) => EvenMaps(last.v)

\* ------------------------------------------------------------------ aborts

ExInfo == Apply("ex-info", <<String("m"), Map(<<>>)>>)
RecurOne == List(<<Symbol("recur"), Number(1)>>)

AbortKinds ==
    {"eval number", "eval quoted list", "eval exception", "eval recur", "eval macro",
     "exception in let*", "exception in fn*", "called exception in fn*",
     "exception in nested fn*", "defmacro!", "throw"}

Aborting(kind) ==
    CASE kind = "eval number" -> Apply("eval", <<Number(1)>>)
      [] kind = "eval quoted list" -> EvalQuoted(Apply("+", <<Number(1), Number(2)>>))
      [] kind = "eval exception" -> Apply("eval", <<ExInfo>>)
      [] kind = "eval recur" -> Apply("eval", <<RecurOne>>)
      [] kind = "eval macro" -> Apply("eval", <<Symbol("m")>>)
      [] kind = "defmacro!" ->
            DefMacroForm("m", <<"a">>, <<Symbol("a")>>)
      [] kind = "exception in let*" ->
            \* (let* [e (ex-info "m" {})] e)
            LetForm(<<Symbol("e"), ExInfo>>, <<Symbol("e")>>)
      [] kind = "exception in fn*" ->
            \* (let* [e (ex-info "m" {})] (fn* [] e))
            LetForm(<<Symbol("e"), ExInfo>>, <<FnForm(<<>>, <<Symbol("e")>>)>>)
      [] kind = "called exception in fn*" ->
            \* (let* [e (ex-info "m" {})] ((fn* [] e)))
            LetForm(<<Symbol("e"), ExInfo>>,
                    <<Call(FnForm(<<>>, <<Symbol("e")>>), <<>>)>>)
      [] kind = "exception in nested fn*" ->
            \* ((fn* [] (let* [e (ex-info "m" {})] (fn* [] e))))
            Call(FnForm(<<>>, <<LetForm(<<Symbol("e"), ExInfo>>,
                                        <<FnForm(<<>>, <<Symbol("e")>>)>>)>>), <<>>)
      [] kind = "throw" -> Apply("throw", <<ExInfo>>)

AbortForms == {Aborting(kind) : kind \in AbortKinds}

NextAbort == \E form \in AbortForms : Evaluate(form)

SpecAbort == Init /\ [][NextAbort]_vars

\* C27: every evaluation returns a value or an evaluation error; the evaluator
\* never aborts, also when evaluate is handed a Recur, Exception or Macro value
\* through eval or through a let*-bound exception referenced in a fn* body.
C27_EvaluateNeverAborts ==
    last.form \in AbortForms => last.k \in {"ok", "err"} /\ ~crashed

\* ------------------------------------------------------------------ swap! callbacks

CallbackKinds == {"deref", "reset!", "swap!", "other atom", "none"}

\* the body of the function that swap! applies
CallbackBody(kind) ==
    CASE kind = "deref" -> Apply("deref", <<Symbol("a")>>)
      [] kind = "reset!" -> Apply("reset!", <<Symbol("a"), Number(5)>>)
      [] kind = "swap!" -> Apply("swap!", <<Symbol("a"), Symbol("+"), Number(1)>>)
      [] kind = "other atom" -> Apply("deref", <<Apply("atom", <<Number(3)>>)>>)
      [] kind = "none" -> Apply("+", <<Symbol("v"), Number(1)>>)

\* (swap! a (fn* [v] body))
SwapCalling(kind) ==
    Apply("swap!", <<Symbol("a"), FnForm(<<Symbol("v")>>, <<CallbackBody(kind)>>)>>)

CallbackForms == {DefAtom, DerefAtom} \cup {SwapCalling(kind) : kind \in CallbackKinds}

NextCallback == \E form \in CallbackForms : Evaluate(form)

SpecCallback == Init /\ [][NextCallback]_vars

\* C28: the function that swap! applies may itself read or write the same
\* atom (deref, reset!, a nested swap!); the evaluation completes with a value
\* or an evaluation error and no access fails because the outer swap! holds
\* the atom.
C28_SwapCallbackMayUseTheAtom ==
    \A kind \in CallbackKinds :
        HasAtom(pre) /\ last.form = SwapCalling(kind)
        => last.k \in {"ok", "err"} /\ ~crashed

\* ------------------------------------------------------------------ let*-bound values in fn*

BoundKinds ==
    {"number", "atom", "list", "call list", "symbol", "function", "exception"}

\* the expression a let* binds to y
BoundExpr(kind) ==
    CASE kind = "number" -> Number(5)
      [] kind = "atom" -> Apply("atom", <<Number(1)>>)
      [] kind = "list" -> QuoteForm(List(<<Number(1), Number(2)>>))
      [] kind = "call list" -> QuoteForm(Apply("+", <<Number(1), Number(2)>>))
      [] kind = "symbol" -> QuoteForm(Symbol("x"))
      [] kind = "function" -> FnForm(<<Symbol("a")>>, <<Symbol("a")>>)
      [] kind = "exception" -> ExInfo

\* (let* [y expr] ((fn* [] y)))
BoundInFn(kind) ==
    LetForm(<<Symbol("y"), BoundExpr(kind)>>,
            <<Call(FnForm(<<>>, <<Symbol("y")>>), <<>>)>>)

\* (let* [y expr] y)
BoundInLet(kind) == LetForm(<<Symbol("y"), BoundExpr(kind)>>, <<Symbol("y")>>)

\* ((fn* [] (let* [y expr] ((fn* [] y))))): the let* in the body of a function
BoundInFnInFn(kind) == Call(FnForm(<<>>, <<BoundInFn(kind)>>), <<>>)

BoundForms ==
    {BoundInFn(kind) : kind \in BoundKinds}
    \cup {BoundInLet(kind) : kind \in BoundKinds}
    \cup {BoundInFnInFn(kind) : kind \in BoundKinds}

NextBound == \E form \in BoundForms : Evaluate(form)

SpecBound == Init /\ [][NextBound]_vars

\* value is what the let* bound to y for this kind
IsBound(kind, value) ==
    CASE kind = "number" -> value = Number(5)
      [] kind = "atom" -> value.t = "atom"
      [] kind = "list" -> value = List(<<Number(1), Number(2)>>)
      [] kind = "call list" -> value = Apply("+", <<Number(1), Number(2)>>)
      [] kind = "symbol" -> value = Symbol("x")
      [] kind = "function" -> value.t = "fn" /\ value.n = 1
      [] kind = "exception" -> value = Exception("m", Map(<<>>), FALSE)

\* C29: a fn* created in a let* body that references a let*-bound name
\* returns, when called, the value bound to the name, for every kind of value;
\* the bound value is data and is not evaluated a second time as code.
C29_BoundValueIsData ==
    \A kind \in BoundKinds :
        last.form \in {BoundInFn(kind), BoundInFnInFn(kind)}
        => last.k = "ok" /\ IsBound(kind, last.v)

\* ------------------------------------------------------------------ try* without catch*

MaxTryOnlyForms == 2

\* (try* e1 ... en)
TryOnly(forms) == List(<<Symbol("try*")>> \o forms)

BeforeKinds == {"none", "number", "print", "throw"}
LastKinds == {"number", "fn*", "closure", "throw"}

\* the forms before the last one
Before(kind) ==
    CASE kind = "none" -> <<>>
      [] kind = "number" -> <<Number(3)>>
      [] kind = "print" -> <<Apply("prn", <<Number(0)>>)>>
      [] kind = "throw" -> <<Thrown>>

\* the last form en; the closure references the parameter p of the function
\* around the try*; p is defined at top level as well
LastOf(kind) ==
    CASE kind = "number" -> Number(8)
      [] kind = "fn*" -> FnForm(<<>>, <<Number(2)>>)
      [] kind = "closure" -> FnForm(<<>>, <<Symbol("p")>>)
      [] kind = "throw" -> Thrown

TryPlaces == {"top", "in fn*"}

\* the try* at top level, or ((fn* [p] (try* ...)) 4)
TryOnlyIn(before, en, place) ==
    IF place = "top" THEN TryOnly(Before(before) \o <<LastOf(en)>>)
    ELSE Call(FnForm(<<Symbol("p")>>, <<TryOnly(Before(before) \o <<LastOf(en)>>)>>),
              <<Number(4)>>)

DefP == DefForm("p", Number(4))

TryOnlyForms ==
    {TryOnlyIn(before, en, place) :
        before \in BeforeKinds, en \in LastKinds, place \in TryPlaces}
    \cup {DefP}

NextTryOnly ==
    /\ Len(hist) < MaxTryOnlyForms
    /\ \E form \in TryOnlyForms : Evaluate(form)

SpecTryOnly == Init /\ [][NextTryOnly]_vars

IsThrown(value) == value = exception_into_thrown(Exception("", Number(7), FALSE))

\* C30: (try* e1 ... en) without catch* evaluates e1 ... en and returns the
\* value of en, or the thrown exception that stopped the sequence, also when
\* the try* stands in a fn* body and en is a fn* form: the function is the
\* result and not a catch handler.
C30_TryWithoutCatchReturnsLast ==
    \A before \in BeforeKinds, en \in LastKinds, place \in TryPlaces :
        /\ last.form = TryOnlyIn(before, en, place)
        /\ (en = "closure" /\ place = "top" => Resolved(pre, "p") # <<>>)
        => /\ last.k = "ok"
           /\ interp.out = pre.out \o (IF before = "print" THEN << <<Number(0)>> >>
                                       ELSE <<>>)
           /\ IF before = "throw" \/ en = "throw" THEN IsThrown(last.v)
              ELSE IF en = "number" THEN last.v = Number(8)
              ELSE last.v.t \in {"fn", "fnc"}

====
